---------------------------- MODULE Spec2Model ----------------------------
(***************************************************************************)
(* A model of inotify.PathWatcher (src/inotify/pathwatcher.py) and of the  *)
(* symlink resolver it drives (src/inotify/pathresolver.py), together with *)
(* the part of the Linux inotify kernel interface and of the filesystem    *)
(* that the watcher consumes.                                              *)
(*                                                                         *)
(* Event masks are modelled as sets of flag names: the bitwise or of the   *)
(* code is set union, the bitwise and is set intersection, and a mask is   *)
(* "true" when it is non-empty.  Every flag used here is a single bit in   *)
(* the kernel header, so the two algebras agree.                           *)
(*                                                                         *)
(* Python objects (_PathWatch, _Link, _Descriptor) are modelled as heap    *)
(* objects with an identity: wobj, lobj and dobj map identities to field   *)
(* records.  An exception that escapes an operation leaves the heap in     *)
(* the state it had when the exception was raised; the name of the         *)
(* exception is recorded in err.                                           *)
(***************************************************************************)
EXTENDS Integers, Sequences, FiniteSets, TLC

VARIABLES
    fs,         \* filesystem: directory entries, dir inode -> name -> inode
    kwatch,     \* kernel: live inotify watches, wd -> [inode, mask]
    kq,         \* kernel: queue of raw events not yet read
    nextwd,     \* kernel: next watch descriptor to hand out
    cookie,     \* kernel: last rename cookie handed out
    wobj,       \* heap: _PathWatch objects
    lobj,       \* heap: _Link objects
    dobj,       \* heap: _Descriptor objects, keyed by their wd
    wdtab,      \* PathWatcher._watchdescriptors (the set of its keys)
    paths,      \* PathWatcher._paths: PosixPath -> _PathWatch identity
    pending,    \* PathWatcher._pending_watch_removes
    reconn,     \* PathWatcher._reconnect
    events,     \* PathWatcher.events
    op,         \* the last operation and its inputs
    ret,        \* what the last operation returned
    err,        \* the exception the last operation raised, or None
    hist,       \* observations made during the last operation
    removed,    \* the paths that were removed and not added again since
    trip,       \* an add followed by a remove of the same path, as far as it got
    steps       \* operations performed so far: [api, fs]

vars == <<fs, kwatch, kq, nextwd, cookie, wobj, lobj, dobj, wdtab, paths,
          pending, reconn, events, op, ret, err, hist, removed, trip, steps>>

None == "None"     \* no inode, no exception
NoStr == <<>>       \* Python's None where a string (a path or a name) may stand
NoWd == 0           \* Python's None where a _Descriptor may stand
NoCount == -1       \* Python's None where a link count may stand

-----------------------------------------------------------------------------
(* Bounds of the model.                                                    *)

MaxSteps == 3       \* calls of the watcher in one behaviour
MaxFsOps == 2       \* filesystem changes in one behaviour
MaxWd == 6          \* watch descriptors the kernel hands out
SymlinkMax == 2     \* what get_symlinkmax() probes: symlinks the system follows
Fuel == 12          \* recursion budget of the path walks of the model

-----------------------------------------------------------------------------
(* inotify flags (in_constants.py takes them from the C extension).        *)

IN_ACCESS == {"ACCESS"}
IN_MODIFY == {"MODIFY"}
IN_ATTRIB == {"ATTRIB"}
IN_CLOSE_WRITE == {"CLOSE_WRITE"}
IN_CLOSE_NOWRITE == {"CLOSE_NOWRITE"}
IN_CLOSE == IN_CLOSE_WRITE \cup IN_CLOSE_NOWRITE
IN_OPEN == {"OPEN"}
IN_MOVED_FROM == {"MOVED_FROM"}
IN_MOVED_TO == {"MOVED_TO"}
IN_MOVE == IN_MOVED_FROM \cup IN_MOVED_TO
IN_CREATE == {"CREATE"}
IN_DELETE == {"DELETE"}
IN_DELETE_SELF == {"DELETE_SELF"}
IN_MOVE_SELF == {"MOVE_SELF"}
IN_UNMOUNT == {"UNMOUNT"}
IN_Q_OVERFLOW == {"Q_OVERFLOW"}
IN_IGNORED == {"IGNORED"}
IN_ONLYDIR == {"ONLYDIR"}
IN_EXCL_UNLINK == {"EXCL_UNLINK"}
IN_MASK_ADD == {"MASK_ADD"}
IN_ISDIR == {"ISDIR"}
IN_PATH_MOVED_FROM == {"PATH_MOVED_FROM"}
IN_PATH_MOVED_TO == {"PATH_MOVED_TO"}
IN_PATH_CREATE == {"PATH_CREATE"}
IN_PATH_DELETE == {"PATH_DELETE"}
IN_PATH_UNMOUNT == {"PATH_UNMOUNT"}
IN_PATH_CHANGED ==
    IN_PATH_MOVED_FROM \cup IN_PATH_MOVED_TO \cup IN_PATH_CREATE
        \cup IN_PATH_DELETE \cup IN_PATH_UNMOUNT

-----------------------------------------------------------------------------
(* Generic helpers.                                                        *)

Last(q) == q[Len(q)]
Front(q) == SubSeq(q, 1, Len(q) - 1)
Range(q) == {q[i] : i \in 1..Len(q)}
Min2(a, b) == IF a < b THEN a ELSE b

\* F applied to the value v: Let(e, LAMBDA x : body) is body with x standing for
\* the value of e.
Let(v, F(_)) == F(v)

\* f with the key k removed.
Without(f, k) == [x \in DOMAIN f \ {k} |-> f[x]]

\* f with f[k] = v (k added when new).
With(f, k, v) == [x \in DOMAIN f \cup {k} |-> IF x = k THEN v ELSE f[x]]

\* q without the first occurrence of x (list.remove).
RECURSIVE RemoveFirst(_, _)
RemoveFirst(q, x) ==
    IF q = <<>> THEN <<>>
    ELSE IF Head(q) = x THEN Tail(q)
    ELSE <<Head(q)>> \o RemoveFirst(Tail(q), x)

\* The elements of the finite set S of integers, in increasing order.
RECURSIVE SortedSeq(_)
SortedSeq(S) ==
    IF S = {} THEN <<>>
    ELSE LET m == CHOOSE x \in S : \A y \in S : x <= y
         IN <<m>> \o SortedSeq(S \ {m})

\* The smallest natural number not in S.
Fresh(S) == CHOOSE n \in 0..Cardinality(S) : n \notin S /\ \A m \in 0..(n - 1) : m \in S

-----------------------------------------------------------------------------
(* Paths.  A string holding a path is modelled as the sequence of its      *)
(* components as split at "/", a leading "/" component standing for the    *)
(* root; a string may hold "." components.  A PosixPath is the normalised  *)
(* sequence, without "." components.  A file name is a string of one       *)
(* component.                                                              *)

\* PosixPath(string): pathlib drops the "." components.
PosixPath(str) == SelectSeq(str, LAMBDA c : c # ".")

\* str(PosixPath): the empty path prints as ".".
Str(p) == IF p = <<>> THEN <<".">> ELSE p

curdir == PosixPath(<<".">>)
rootdir == PosixPath(<<"/">>)

is_absolute(p) == p # <<>> /\ p[1] = "/"
relative(p) == IF is_absolute(p) THEN Tail(p) ELSE p
\* p[q] in the pathlib of the code: q appended to p, or q itself if absolute.
Join(p, q) == IF is_absolute(q) THEN q ELSE p \o q
parent(p) == IF p = <<>> \/ p = rootdir THEN p ELSE Front(p)

-----------------------------------------------------------------------------
(* The filesystem.  A fixed population of inodes; what changes is which    *)
(* directory entry names which inode.  The process's working directory is  *)
(* the root directory.                                                     *)

Names == {"testfile", "testlink", "testdir", "nonexistent"}
DirInodes == {"root", "d1"}
FileInodes == {"f1", "f2"}
LinkInodes == {"s1", "s2"}
Inodes == DirInodes \cup FileInodes \cup LinkInodes

Kind(i) == IF i \in DirInodes THEN "dir" ELSE IF i \in FileInodes THEN "file" ELSE "link"

\* What readlink() returns for a symlink inode.
Target(i) == IF i = "s1" THEN <<"testfile">> ELSE <<"testlink">>

Linked(f) == {f[d][n] : d \in DirInodes, n \in Names} \ {None}

\* The directory that holds d (the root holds itself).
ParentDir(f, d) ==
    IF \E p \in DirInodes : \E n \in Names : f[p][n] = d
    THEN CHOOSE p \in DirInodes : \E n \in Names : f[p][n] = d
    ELSE d

\* The kernel's path walk from the directory cur: [errno, inode].
RECURSIVE Walk(_, _, _, _, _, _)
Walk(f, cur, parts, followLast, depth, fuel) ==
    IF parts = <<>> THEN [errno |-> None, inode |-> cur]
    ELSE IF fuel = 0 THEN [errno |-> "ELOOP", inode |-> None]
    ELSE LET h == Head(parts)
             t == Tail(parts)
         IN IF h = "/" THEN Walk(f, "root", t, followLast, depth, fuel - 1)
            ELSE IF Kind(cur) # "dir" THEN [errno |-> "ENOTDIR", inode |-> None]
            ELSE IF h = "." THEN Walk(f, cur, t, followLast, depth, fuel - 1)
            ELSE IF h = ".." THEN Walk(f, ParentDir(f, cur), t, followLast, depth, fuel - 1)
            ELSE IF h \notin Names \/ f[cur][h] = None
                 THEN [errno |-> "ENOENT", inode |-> None]
            ELSE LET c == f[cur][h]
                 IN IF Kind(c) = "link" /\ (t # <<>> \/ followLast)
                    THEN IF depth + 1 > SymlinkMax
                         THEN [errno |-> "ELOOP", inode |-> None]
                         ELSE Walk(f, cur, Target(c) \o t, followLast, depth + 1, fuel - 1)
                    ELSE Walk(f, c, t, followLast, depth, fuel - 1)

\* os.readlink(str(p)): [errno, target].
readlink(f, p) ==
    LET w == Walk(f, "root", Str(p), FALSE, 0, Fuel)
    IN IF w.errno # None THEN [errno |-> w.errno, target |-> <<>>]
       ELSE IF Kind(w.inode) # "link" THEN [errno |-> "EINVAL", target |-> <<>>]
       ELSE [errno |-> None, target |-> PosixPath(Target(w.inode))]

\* PosixPath.is_dir()
is_dir(f, p) ==
    LET w == Walk(f, "root", Str(p), TRUE, 0, Fuel)
    IN w.errno = None /\ Kind(w.inode) = "dir"

-----------------------------------------------------------------------------
(* The inotify kernel interface.  Operators take and return a record s     *)
(* holding every variable of the model.                                    *)

RawEvent(wd, mask, ck, name) == [wd |-> wd, mask |-> mask, cookie |-> ck, name |-> name]

\* Queue an event, unless it equals the last one queued (the kernel merges them).
Enqueue(q, e) == IF q # <<>> /\ Last(q) = e THEN q ELSE Append(q, e)

\* An event with the flags bits on inode i, for the watch on i that asked for it.
KEmit(s, i, bits, ck, name, isdir) ==
    LET ws == {w \in DOMAIN s.kwatch : s.kwatch[w].inode = i /\ s.kwatch[w].mask \cap bits # {}}
    IN IF ws = {} THEN s
       ELSE LET w == CHOOSE x \in ws : TRUE
                m == IF isdir THEN bits \cup IN_ISDIR ELSE bits
            IN [s EXCEPT !.kq = Enqueue(@, RawEvent(w, m, ck, name))]

\* The inode i is gone: the kernel drops its watch and says IGNORED.
KDropInode(s, i) ==
    LET ws == {w \in DOMAIN s.kwatch : s.kwatch[w].inode = i}
    IN IF ws = {} THEN s
       ELSE LET w == CHOOSE x \in ws : TRUE
            IN [s EXCEPT !.kwatch = Without(@, w),
                         !.kq = Enqueue(@, RawEvent(w, IN_IGNORED, 0, NoStr))]

\* inotify add_watch(fd, path, mask): [s, errno, wd].
add_watch(s, pathstr, mask) ==
    LET w == Walk(s.fs, "root", pathstr, TRUE, 0, Fuel)
        m == mask \ IN_MASK_ADD
    IN IF w.errno # None THEN [s |-> s, errno |-> w.errno, wd |-> NoWd]
       ELSE IF IN_ONLYDIR \subseteq mask /\ Kind(w.inode) # "dir"
       THEN [s |-> s, errno |-> "ENOTDIR", wd |-> NoWd]
       ELSE LET old == {x \in DOMAIN s.kwatch : s.kwatch[x].inode = w.inode}
            IN IF old # {}
               THEN LET x == CHOOSE y \in old : TRUE
                        nm == IF IN_MASK_ADD \subseteq mask THEN s.kwatch[x].mask \cup m ELSE m
                    IN [s |-> [s EXCEPT !.kwatch[x].mask = nm], errno |-> None, wd |-> x]
               ELSE [s |-> [s EXCEPT !.kwatch = With(@, s.nextwd, [inode |-> w.inode, mask |-> m]),
                                     !.nextwd = @ + 1],
                     errno |-> None, wd |-> s.nextwd]

\* inotify remove_watch(fd, wd): [s, errno].  The kernel acknowledges with IGNORED.
remove_watch(s, wd) ==
    IF wd \notin DOMAIN s.kwatch THEN [s |-> s, errno |-> "EINVAL"]
    ELSE [s |-> [s EXCEPT !.kwatch = Without(@, wd),
                          !.kq = Enqueue(@, RawEvent(wd, IN_IGNORED, 0, NoStr)),
                          !.hist.rmcalls = Append(@, wd),
                          !.hist.called = @ \cup {wd}],
          errno |-> None]

-----------------------------------------------------------------------------
(* Filesystem operations of other processes, and the events they queue.    *)

\* The inode a new directory entry gets: one that no directory entry names.
HasFree(f, pool) == pool \ Linked(f) # {}
FreeInode(f, pool) == CHOOSE i \in pool \ Linked(f) : TRUE

\* creat(d/n): a new empty file.
FsCreate(s, d, n) ==
    LET i == FreeInode(s.fs, FileInodes)
    IN KEmit([s EXCEPT !.fs[d][n] = i], d, IN_CREATE, 0, <<n>>, FALSE)

\* symlink(Target(i), d/n)
FsSymlink(s, d, n, i) ==
    KEmit([s EXCEPT !.fs[d][n] = i], d, IN_CREATE, 0, <<n>>, FALSE)

\* The events of an inode whose last name is gone.
KUnlinked(s, i) ==
    KDropInode(KEmit(KEmit(s, i, IN_ATTRIB, 0, NoStr, FALSE),
                     i, IN_DELETE_SELF, 0, NoStr, FALSE), i)

\* unlink(d/n) of a file or symlink, or rmdir(d/n) of an empty directory.  The
\* kernel reports the inode's own events before the directory's DELETE or after
\* it, depending on its version and on who else holds the inode.
FsUnlink(s, d, n, selfFirst) ==
    LET i == s.fs[d][n]
        isdir == Kind(i) = "dir"
        s1 == [s EXCEPT !.fs[d][n] = None]
    IN IF selfFirst
       THEN KEmit(KUnlinked(s1, i), d, IN_DELETE, 0, <<n>>, isdir)
       ELSE KUnlinked(KEmit(s1, d, IN_DELETE, 0, <<n>>, isdir), i)

\* rename(d/old, d/new); an existing file or symlink at d/new is replaced.
FsRename(s, d, old, new) ==
    LET i == s.fs[d][old]
        over == s.fs[d][new]
        isdir == Kind(i) = "dir"
        ck == s.cookie + 1
        s1 == [s EXCEPT !.fs[d][old] = None, !.fs[d][new] = i, !.cookie = ck]
        s2 == KEmit(s1, d, IN_MOVED_FROM, ck, <<old>>, isdir)
        s3 == KEmit(s2, d, IN_MOVED_TO, ck, <<new>>, isdir)
        s4 == KEmit(s3, i, IN_MOVE_SELF, 0, NoStr, FALSE)
    IN IF over = None THEN s4 ELSE KUnlinked(s4, over)

\* open() of the file inode i, named n in the directory d.
FsOpen(s, d, n) ==
    LET i == s.fs[d][n]
    IN KEmit(KEmit(s, d, IN_OPEN, 0, <<n>>, FALSE), i, IN_OPEN, 0, NoStr, FALSE)

\* The events of the watched inodes of a filesystem that is unmounted.
RECURSIVE KUnmounted(_, _)
KUnmounted(s, I) ==
    IF I = {} THEN s
    ELSE LET i == CHOOSE x \in I : TRUE
             ws == {w \in DOMAIN s.kwatch : s.kwatch[w].inode = i}
             s1 == IF ws = {} THEN s
                   ELSE [s EXCEPT !.kq = Enqueue(@, RawEvent(CHOOSE w \in ws : TRUE,
                                                            IN_UNMOUNT, 0, NoStr))]
         IN KUnmounted(KDropInode(s1, i), I \ {i})

\* umount(d/n): the directory n of d was the root of a mounted filesystem; the
\* empty directory it was mounted on shows again.
FsUnmount(s, d, n) ==
    LET i == s.fs[d][n]
        inside == {s.fs[i][m] : m \in Names} \ {None}
    IN KUnmounted([s EXCEPT !.fs[i] = [m \in Names |-> None]], inside \cup {i})

\* The kernel's event queue overflowed.
FsOverflow(s) == [s EXCEPT !.kq = Enqueue(@, RawEvent(-1, IN_Q_OVERFLOW, 0, NoStr))]

\* A full queue takes no event but the one IN_Q_OVERFLOW: the unlink happens, the
\* kernel drops the watches of the inode as ever, and the events of it are lost.
FsLostUnlink(s, d, n) ==
    Let(FsUnlink(s, d, n, TRUE), LAMBDA t : FsOverflow([t EXCEPT !.kq = s.kq]))

-----------------------------------------------------------------------------
(* Exceptions.  An exception is a record of its class and of the value of  *)
(* its errno attribute, the only thing the handlers of the code look at.   *)

NoErr == [type |-> None, errno |-> None]
Ok(s) == s.err = NoErr
Raise(s, e) == IF Ok(s) THEN [s EXCEPT !.err = e] ELSE s

\* An OSError raised by a system call carries the call's errno.
OSError(errno) == [type |-> "OSError", errno |-> errno]

\* InvalidPathError with the error number in errno.
InvalidPathError_errno(type, args) ==
    [type |-> type, errno |-> IF Len(args) >= 1 THEN args[1] ELSE None]

\* InvalidPathError.__init__(msg, path, *args) calls OSError.__init__(self, msg,
\* *args).  OSError takes its first argument as errno and its second as
\* strerror, so with one extra argument the errno attribute holds the message
\* text and the error number lands in strerror; with none it stays unset.
InvalidPathError(type, args) ==
    [type |-> type, errno |-> IF Len(args) >= 1 THEN "msg" ELSE None]

SymlinkLoopError_missing == InvalidPathError("FileNotFoundError", <<"ENOENT">>)

SymlinkLoopError == InvalidPathError("SymlinkLoopError", <<"ELOOP">>)
ConcurrentFilesystemModificationError ==
    InvalidPathError("ConcurrentFilesystemModificationError", <<>>)
FileNotFoundError == InvalidPathError("FileNotFoundError", <<"ENOENT">>)
NotADirectoryError == InvalidPathError("NotADirectoryError", <<"ENOTDIR">>)

AssertionError == [type |-> "AssertionError", errno |-> None]
KeyError == [type |-> "KeyError", errno |-> None]
ValueError == [type |-> "ValueError", errno |-> None]
TypeError == [type |-> "TypeError", errno |-> None]
AttributeError == [type |-> "AttributeError", errno |-> None]
UnboundLocalError == [type |-> "UnboundLocalError", errno |-> None]
NoFilesException == [type |-> "NoFilesException", errno |-> None]

-----------------------------------------------------------------------------
(* pathresolver.resolve_symlink.  The generator is modelled by what it     *)
(* hands to its consumer: ys, the pairs it yields in order, each with the  *)
(* value the shared link counter has when the consumer receives the pair;  *)
(* exc, the exception that ends it (NoErr when it returns); loc, the       *)
(* location of its last pair; and the cache and counter it leaves.         *)

Yielded(loc, rest, cnt) == [loc |-> loc, rest |-> rest, cnt |-> cnt]

ResolveResult(ys, exc, loc, known, cnt) ==
    [ys |-> ys, exc |-> exc, loc |-> loc, known |-> known, cnt |-> cnt]

\* What the generator hands on after having yielded y first.
YieldFirst(y, r) == [r EXCEPT !.ys = <<y>> \o @]

\* The pairs of a nested call c that the caller hands on: every pair but the
\* last, with the caller's remaining path appended; a pair is handed on when
\* the next one arrives, so it carries the counter of the next one.
Relayed_bare(c, rest) ==
    IF Len(c.ys) <= 1 THEN <<>>
    ELSE [i \in 1..(Len(c.ys) - 1) |->
            Yielded(c.ys[i].loc, c.ys[i].rest, c.ys[i + 1].cnt)]

Relayed(c, rest) ==
    IF Len(c.ys) <= 1 THEN <<>>
    ELSE [i \in 1..(Len(c.ys) - 1) |->
            Yielded(c.ys[i].loc, Join(c.ys[i].rest, rest), c.ys[i + 1].cnt)]

\* location.parent() whatever the location holds.
UpFrom_parent(location) == parent(location)

\* location['..'] when location holds nothing but '/' and '..', its parent otherwise.
UpFrom(location) ==
    IF \A i \in 1..Len(location) : location[i] \in {"/", ".."}
    THEN Join(location, <<"..">>)
    ELSE parent(location)

\* The except clause around os.readlink, for an errno other than EINVAL: the
\* exception that leaves the generator; isdir is what location.is_dir() answers.
ReadlinkFault(errno, isdir) ==
    IF errno = "ENOENT" THEN FileNotFoundError
    ELSE IF errno = "ENOTDIR"
    THEN IF ~isdir THEN NotADirectoryError ELSE ConcurrentFilesystemModificationError
    ELSE IF errno = "ELOOP" THEN ConcurrentFilesystemModificationError
    ELSE OSError(errno)

\* The filesystem changing under the resolver: after the pair number `at` the
\* readlink() call fails with errno, and is_dir() then answers isdir.  The
\* resolver makes one system call a round, so the calls before it saw the
\* filesystem as it was.
\* With swap, the change itself is part of the race: after the pair number `at`
\* another process moves the directory of that pair aside and a file into its
\* place, the readlink() call fails, and the process moves both back before
\* is_dir() is called.  The kernel queues the events of the four renames.
NoRace == [at |-> 0, errno |-> None, isdir |-> FALSE, swap |-> FALSE]

SpareName == "nonexistent"
FileName == "testfile"

\* The directory n of the root can be swapped with the file FileName.
Swappable(f, loc) ==
    /\ Len(loc) = 2 /\ loc[1] = "/" /\ f["root"][loc[2]] # None
    /\ Kind(f["root"][loc[2]]) = "dir"
    /\ f["root"][SpareName] = None
    /\ f["root"][FileName] # None /\ Kind(f["root"][FileName]) = "file"

\* The directory n moved aside and the file moved to its name.
SwappedOut(s, n) == FsRename(FsRename(s, "root", n, SpareName), "root", FileName, n)

\* The file and the directory moved back.
SwappedBack(s, n) == FsRename(FsRename(s, "root", n, FileName), "root", SpareName, n)

\* The swap gives readlink() and is_dir() the answers that the race names.
SwapFits(s, race, y) ==
    /\ Swappable(s.fs, y.loc)
    /\ Let(SwappedOut(s, y.loc[2]), LAMBDA mid :
          /\ readlink(mid.fs, Join(y.loc, <<y.rest[1]>>)).errno = race.errno
          /\ is_dir(SwappedBack(mid, y.loc[2]).fs, y.loc) = race.isdir)

\* The race takes place in the run r of the generator when the generator goes on
\* to a readlink() call after the pair number race.at.
RaceHits(race, r) ==
    /\ race.at \in 1..Len(r.ys)
    /\ r.ys[race.at].rest # curdir /\ r.ys[race.at].rest[1] # ".."

\* The filesystem and the event queue after the race, the links of the pairs
\* before it being in place.
AfterRace(s, race, r) ==
    IF RaceHits(race, r) /\ race.swap /\ Ok(s)
    THEN SwappedBack(SwappedOut(s, r.ys[race.at].loc[2]), r.ys[race.at].loc[2])
    ELSE s

\* The run r of the generator with the race in it.
Raced(race, r) ==
    IF RaceHits(race, r)
    THEN [r EXCEPT !.ys = SubSeq(@, 1, race.at),
                   !.exc = ReadlinkFault(race.errno, race.isdir)]
    ELSE r

RECURSIVE resolve_symlink(_, _, _, _, _, _, _)
resolve_symlink(f, location0, link_contents0, active_links, known_links, linkcounter, fuel) ==
    LET location == IF is_absolute(link_contents0) THEN rootdir ELSE location0
        link_contents == relative(link_contents0)
        y == Yielded(location, link_contents, linkcounter)
        stop(exc) == ResolveResult(<<y>>, exc, location, known_links, linkcounter)
    IN IF link_contents = curdir THEN stop(NoErr)
       ELSE IF fuel = 0 THEN stop([type |-> "RecursionError", errno |-> None])
       ELSE IF link_contents[1] = ".."
       THEN YieldFirst(y, resolve_symlink(f, UpFrom(location), Tail(link_contents),
                                          active_links, known_links, linkcounter, fuel - 1))
       ELSE LET nextpath == Join(location, <<link_contents[1]>>)
                rl == readlink(f, nextpath)
                rest == Tail(link_contents)
            IN IF rl.errno = "EINVAL"
               THEN YieldFirst(y, resolve_symlink(f, nextpath, rest, active_links,
                                                  known_links, linkcounter, fuel - 1))
               ELSE IF rl.errno # None
               THEN stop(ReadlinkFault(rl.errno, is_dir(f, location)))
               ELSE IF nextpath \in active_links THEN stop(SymlinkLoopError)
               ELSE IF nextpath \in DOMAIN known_links
               THEN YieldFirst(y, resolve_symlink(f, known_links[nextpath], rest, active_links,
                                                  known_links, linkcounter, fuel - 1))
               ELSE LET c == resolve_symlink(f, location, rl.target,
                                             active_links \cup {nextpath},
                                             known_links, linkcounter + 1, fuel - 1)
                        relayed == <<y>> \o Relayed(c, rest)
                    IN IF c.exc # NoErr
                       THEN ResolveResult(relayed, c.exc, c.loc, c.known, c.cnt)
                       ELSE LET r == resolve_symlink(f, c.loc, rest, active_links,
                                                     With(c.known, nextpath, c.loc),
                                                     c.cnt, fuel - 1)
                            IN [r EXCEPT !.ys = relayed \o @]

\* pathresolver.resolve_path
resolve_path(f, path) == resolve_symlink(f, curdir, PosixPath(path), {}, <<>>, 0, Fuel)

-----------------------------------------------------------------------------
(* The heap of the watcher.                                                *)

NoEvent == [path |-> NoStr, mask |-> {}, cookie |-> -1, name |-> NoStr,
            raw |-> RawEvent(NoWd, {}, -1, NoStr)]

\* rmcalls: the wds given to remove_watch; raws: the raw events read; deliv: one
\* entry for each raw event a _Descriptor dispatched; dlog: one entry for each
\* call of _PathWatch.handle_event; recon: the watches reconnect() ran on;
\* watch: the _PathWatch that remove() was called for; pre: what add() or
\* remove() found when it was called; again: the path of an add() was watched already;
\* ovf: what each watch looked like when the loop of _handle_descriptorless_event
\* was through, and how many reconnect() calls the read had made by then;
\* faults: one entry for each exception that reached the except clauses of reconnect();
\* empt: one entry for each call of _signal_empty_watch, with the counter before
\* and after it; gone: one entry for each call of _removewatch, likewise;
\* resumed: the calls of reconnect() that found Links in the chain, and how many;
\* called: the wds that remove_watch has taken from the kernel since the start.
NoPre == [paths |-> <<>>, watches |-> <<>>, table |-> <<>>, pending |-> 0, kernel |-> {}]

\* What a read found when it was called: idle is that nothing was buffered, no
\* watch awaited reconnection and no descriptor was alive.
NoRd == [idle |-> FALSE, kq |-> <<>>, reconn |-> {}]

NoHist ==
    [rmcalls |-> <<>>, dlog |-> <<>>, recon |-> <<>>, raws |-> <<>>, deliv |-> <<>>,
     watch |-> -1, pre |-> NoPre, again |-> FALSE, ovf |-> <<>>, rd |-> NoRd,
     faults |-> <<>>, empt |-> <<>>, gone |-> <<>>, resumed |-> <<>>, called |-> {}]

\* Event.__init__(raw, path)
Event(raw, path) ==
    [path |-> path, mask |-> raw.mask, cookie |-> raw.cookie, name |-> raw.name, raw |-> raw]

\* _Descriptor.__init__
NewDescriptor == [mask |-> {}, active |-> TRUE, callbacks |-> <<>>]

\* The _Link objects of the watch w, first to last.
LinksOf(s, w) == s.wobj[w].links

\* _Descriptor.register_link
register_link(s, d, l) ==
    IF ~s.dobj[d].active THEN Raise(s, AssertionError)
    ELSE LET name == s.lobj[l].name
             cb == s.dobj[d].callbacks
             lst == IF name \in DOMAIN cb THEN cb[name] ELSE <<>>
         IN [s EXCEPT !.dobj[d].mask = @ \cup s.lobj[l].mask,
                      !.dobj[d].callbacks = With(cb, name, Append(lst, l))]

\* _createwatch that makes a _Descriptor for every Link.
createwatch_fresh(s, path, l) ==
    Let(add_watch(s, Str(path), s.lobj[l].mask \cup IN_MASK_ADD), LAMBDA r :
        IF r.errno # None THEN [s |-> Raise(r.s, OSError(r.errno)), wd |-> NoWd]
        ELSE LET s1 == [r.s EXCEPT !.dobj = With(@, r.wd, NewDescriptor),
                                   !.wdtab = @ \cup {r.wd}]
             IN [s |-> register_link(s1, r.wd, l), wd |-> r.wd])

\* PathWatcher._createwatch: [s, wd]
createwatch(s, path, l) ==
    Let(add_watch(s, Str(path), s.lobj[l].mask \cup IN_MASK_ADD), LAMBDA r :
        IF r.errno # None THEN [s |-> Raise(r.s, OSError(r.errno)), wd |-> NoWd]
        ELSE LET s1 == IF r.wd \in r.s.wdtab THEN r.s
                       ELSE [r.s EXCEPT !.dobj = With(@, r.wd, NewDescriptor),
                                        !.wdtab = @ \cup {r.wd}]
             IN [s |-> register_link(s1, r.wd, l), wd |-> r.wd])

\* _Link.__init__, followed by the caller's self.links.append(link).
NewLink(s, w, mask, path, name, rest, linkcount) ==
    LET l == Fresh(DOMAIN s.lobj)
        rec == [idx |-> Len(LinksOf(s, w)), watch |-> w, mask |-> mask, path |-> Str(path),
                name |-> name, rest |-> Str(rest), linkcount |-> linkcount, wd |-> NoWd]
    IN Let(createwatch([s EXCEPT !.lobj = With(@, l, rec)], path, l), LAMBDA c :
           IF ~Ok(c.s) THEN c.s
           ELSE [c.s EXCEPT !.lobj[l].wd = c.wd, !.wobj[w].links = Append(@, l)])

\* _PathWatch.add_leaf
add_leaf(s, w, path) == NewLink(s, w, s.wobj[w].mask, path, NoStr, curdir, NoCount)

\* add_path_element that watches every directory as it does the one before '..'.
add_path_element_self(s, w, path, rest, linkcount) ==
    LET base == IN_UNMOUNT \cup IN_ONLYDIR \cup IN_EXCL_UNLINK \cup IN_IGNORED
    IN IF rest = curdir THEN Raise(s, AssertionError)
       ELSE NewLink(s, w, base \cup IN_MOVE_SELF \cup IN_DELETE_SELF, path, NoStr, rest, linkcount)

\* _PathWatch.add_path_element
add_path_element(s, w, path, rest, linkcount) ==
    LET base == IN_UNMOUNT \cup IN_ONLYDIR \cup IN_EXCL_UNLINK \cup IN_IGNORED
    IN IF rest = curdir THEN Raise(s, AssertionError)
       ELSE IF rest[1] = ".."
       THEN NewLink(s, w, base \cup IN_MOVE_SELF \cup IN_DELETE_SELF, path, NoStr, rest, linkcount)
       ELSE NewLink(s, w, base \cup IN_MOVE \cup IN_DELETE \cup IN_CREATE, path,
                    <<rest[1]>>, rest, linkcount)

\* _signal_empty_watch that does not count the removal as pending.
signal_empty_watch_uncounted(s, d) ==
    Let(IF s.dobj[d].active THEN remove_watch(s, d) ELSE [s |-> s, errno |-> None],
        LAMBDA r : IF r.errno # None THEN Raise(r.s, OSError(r.errno))
                   ELSE r.s)

\* _signal_empty_watch that counts the removal and leaves the kernel's watch.
signal_empty_watch_kept(s, d) == [s EXCEPT !.pending = @ + 1]

\* What one call of _signal_empty_watch did: whether it called remove_watch, the
\* errno of that call, whether the kernel still had the watch, and the counter.
Emptied(s, d, r, after) ==
    [wd |-> d, asked |-> s.dobj[d].active, held |-> d \in DOMAIN s.kwatch,
     twice |-> d \in s.hist.called,
     errno |-> r.errno, before |-> s.pending, after |-> after]

\* PathWatcher._signal_empty_watch
signal_empty_watch(s, d) ==
    Let(IF s.dobj[d].active THEN remove_watch(s, d) ELSE [s |-> s, errno |-> None],
        LAMBDA r :
            Let(IF r.errno # None THEN Raise(r.s, OSError(r.errno))
                ELSE [r.s EXCEPT !.pending = @ + 1],
                LAMBDA t : [t EXCEPT !.hist.empt = Append(@, Emptied(s, d, r, t.pending))]))

\* _removewatch that leaves the counter alone.
removewatch_uncounted(s, d) ==
    IF d \notin s.wdtab THEN Raise(s, KeyError)
    ELSE Let([s EXCEPT !.wdtab = @ \ {d}],
             LAMBDA t : [t EXCEPT !.hist.gone = Append(@, [wd |-> d, before |-> s.pending,
                                                           after |-> t.pending])])

\* PathWatcher._removewatch
removewatch(s, d) ==
    IF d \notin s.wdtab THEN Raise(s, KeyError)
    ELSE Let([s EXCEPT !.wdtab = @ \ {d}, !.pending = @ - 1],
             LAMBDA t : [t EXCEPT !.hist.gone = Append(@, [wd |-> d, before |-> s.pending,
                                                           after |-> t.pending])])

\* remove_link that gives the descriptor up when the last link of one name goes.
remove_link_per_name(s, d, l) ==
    LET name == s.lobj[l].name
        cb == s.dobj[d].callbacks
    IN IF name \notin DOMAIN cb THEN Raise(s, KeyError)
       ELSE IF l \notin Range(cb[name]) THEN Raise(s, ValueError)
       ELSE LET lst == RemoveFirst(cb[name], l)
                cb2 == IF lst = <<>> THEN Without(cb, name) ELSE With(cb, name, lst)
                s1 == [s EXCEPT !.dobj[d].callbacks = cb2]
            IN IF lst = <<>> THEN signal_empty_watch(s1, d) ELSE s1

\* _Descriptor.remove_link
remove_link(s, d, l) ==
    LET name == s.lobj[l].name
        cb == s.dobj[d].callbacks
    IN IF name \notin DOMAIN cb THEN Raise(s, KeyError)
       ELSE IF l \notin Range(cb[name]) THEN Raise(s, ValueError)
       ELSE LET lst == RemoveFirst(cb[name], l)
                cb2 == IF lst = <<>> THEN Without(cb, name) ELSE With(cb, name, lst)
                s1 == [s EXCEPT !.dobj[d].callbacks = cb2]
            IN IF DOMAIN cb2 = {} THEN signal_empty_watch(s1, d) ELSE s1

\* _Link.remove
Link_remove(s, l) ==
    IF s.lobj[l].wd = NoWd THEN Raise(s, AttributeError)
    ELSE Let(remove_link(s, s.lobj[l].wd, l), LAMBDA s1 :
             IF ~Ok(s1) THEN s1 ELSE [s1 EXCEPT !.lobj[l].wd = NoWd])

\* for p in links: p.remove()
RECURSIVE RemoveAll(_, _)
RemoveAll(s, ls) ==
    IF ls = <<>> \/ ~Ok(s) THEN s
    ELSE RemoveAll(Link_remove(s, Head(ls)), Tail(ls))

\* _poplinks_from taking the path of the watch out of the path table as well.
poplinks_from_forgetting(s, w, startidx) ==
    LET links == LinksOf(s, w)
    IN IF startidx >= Len(links) THEN s
       ELSE Let(RemoveAll([s EXCEPT !.wobj[w].watch_complete = Min2(1, @)],
                          SubSeq(links, startidx + 1, Len(links))), LAMBDA s2 :
                IF ~Ok(s2) THEN s2
                ELSE [s2 EXCEPT !.wobj[w].links = SubSeq(links, 1, startidx),
                                !.paths = Without(@, s.wobj[w].path)])

\* _PathWatch._poplinks_from
poplinks_from(s, w, startidx) ==
    LET links == LinksOf(s, w)
    IN IF startidx >= Len(links) THEN s
       ELSE Let(RemoveAll([s EXCEPT !.wobj[w].watch_complete = Min2(1, @)],
                          SubSeq(links, startidx + 1, Len(links))), LAMBDA s2 :
                IF ~Ok(s2) THEN s2
                ELSE [s2 EXCEPT !.wobj[w].links = SubSeq(links, 1, startidx)])

\* _register_reconnect that leaves the completion as it is.
register_reconnect_keeping(s, w) == [s EXCEPT !.reconn = @ \cup {w}]

\* PathWatcher._reconnect_required, called by _PathWatch._register_reconnect
register_reconnect(s, w) ==
    [s EXCEPT !.wobj[w].watch_complete = 0, !.reconn = @ \cup {w}]

\* _PathWatch._queue_overflow
queue_overflow(s, w) ==
    Let(poplinks_from(s, w, 1), LAMBDA s1 :
        IF ~Ok(s1) THEN s1 ELSE register_reconnect(s1, w))

-----------------------------------------------------------------------------
(* _PathWatch.reconnect                                                    *)

IsOSError(e) ==
    e.type \in {"OSError", "SymlinkLoopError", "FileNotFoundError", "NotADirectoryError",
                "ConcurrentFilesystemModificationError"}

\* errno values that reconnect takes for a path fault
PathFaults == {"ENOTDIR", "EACCES", "ENOENT", "ELOOP"}

\* The for loop over the pairs the resolver yields: [s, brk, path, rest].
RECURSIVE ReconnectLoop(_, _, _, _, _)
ReconnectLoop(s, w, ys, path, rest) ==
    IF ys = <<>> THEN [s |-> s, brk |-> FALSE, path |-> path, rest |-> rest]
    ELSE LET y == Head(ys)
         IN IF y.cnt > SymlinkMax
            THEN [s |-> Raise(s, SymlinkLoopError), brk |-> FALSE, path |-> y.loc, rest |-> y.rest]
            ELSE IF y.rest = curdir
            THEN [s |-> s, brk |-> TRUE, path |-> y.loc, rest |-> y.rest]
            ELSE Let(add_path_element(s, w, y.loc, y.rest, y.cnt), LAMBDA s1 :
                     IF ~Ok(s1)
                     THEN [s |-> s1, brk |-> FALSE, path |-> y.loc, rest |-> y.rest]
                     ELSE ReconnectLoop(s1, w, Tail(ys), y.loc, y.rest))

\* The except clauses without the one for ConcurrentFilesystemModificationError.
ReconnectExcept_oserror(s, w) ==
    IF IsOSError(s.err) /\ s.err.errno \in PathFaults
    THEN [s EXCEPT !.err = NoErr, !.wobj[w].watch_complete = 1]
    ELSE s

\* The except clauses of reconnect, for the exception s.err raised in its try block.
ReconnectExcept(s, w) ==
    IF s.err.type = "ConcurrentFilesystemModificationError"
    THEN [s EXCEPT !.err = NoErr]
    ELSE IF IsOSError(s.err) /\ s.err.errno \in PathFaults
    THEN [s EXCEPT !.err = NoErr, !.wobj[w].watch_complete = 1]
    ELSE s

\* The except clauses, with the exception and what they made of it written down.
ReconnectFault(s, w) ==
    Let(ReconnectExcept(s, w), LAMBDA t :
        [t EXCEPT !.hist.faults =
            Append(@, [watch |-> w, exc |-> s.err, links |-> s.wobj[w].links,
                       kept |-> t.wobj[w].links, complete |-> t.wobj[w].watch_complete,
                       queued |-> w \in t.reconn, raised |-> t.err])])

reconnect(s0, w) ==
    LET s == [s0 EXCEPT !.hist.recon = Append(@, w),
                        !.hist.resumed = IF s0.wobj[w].links # <<>>
                                         THEN Append(@, [watch |-> w,
                                                         kept |-> Len(s0.wobj[w].links)])
                                         ELSE @]
        W == s.wobj[w]
        resume == W.links # <<>>
        lastl == s.lobj[Last(W.links)]
        path0 == IF resume THEN PosixPath(lastl.path) ELSE W.cwd
        rest0 == IF resume THEN PosixPath(lastl.rest) ELSE W.path
        cnt0 == IF resume THEN lastl.linkcount ELSE 0
    IN IF W.watch_complete # 0 THEN Raise(s, AssertionError)
       ELSE
       Let(resolve_symlink(s.fs, path0, rest0, {}, <<>>, cnt0, Fuel), LAMBDA run :
       \* A swap that the filesystem does not allow does not take place.
       Let(IF s.race.swap /\ RaceHits(s.race, run)
              /\ ~SwapFits(s, s.race, run.ys[s.race.at])
           THEN NoRace ELSE s.race, LAMBDA race :
       Let(Raced(race, run), LAMBDA res :
       \* The first yielded pair is the one the last link is watching.
       Let(ReconnectLoop(IF RaceHits(race, run) THEN [s EXCEPT !.race = NoRace] ELSE s,
                         w, IF resume THEN Tail(res.ys) ELSE res.ys, path0, rest0),
           LAMBDA lp0 :
       Let([lp0 EXCEPT !.s = AfterRace(lp0.s, race, run)], LAMBDA lp :
           IF ~Ok(lp.s) THEN ReconnectFault(lp.s, w)
           ELSE IF ~lp.brk /\ res.exc # NoErr THEN ReconnectFault(Raise(lp.s, res.exc), w)
           ELSE IF lp.rest # curdir THEN Raise(lp.s, AssertionError)
           ELSE Let(add_leaf(lp.s, w, lp.path), LAMBDA s1 :
                    IF ~Ok(s1) THEN s1 ELSE [s1 EXCEPT !.wobj[w].watch_complete = 2]))))))

\* PosixPath.cwd(): the working directory of the process is the root.
Cwd == rootdir

\* _PathWatch._update_curdir
update_curdir(s, w, remember_curdir) ==
    IF remember_curdir = "True" THEN [s EXCEPT !.wobj[w].cwd = Cwd]
    ELSE IF remember_curdir = "False" THEN [s EXCEPT !.wobj[w].cwd = curdir]
    ELSE s

\* _PathWatch.__init__: [s, w]
NewPathWatch(s, path, mask, remember_curdir) ==
    LET w == Fresh(DOMAIN s.wobj)
        rec == [path |-> path, mask |-> mask, links |-> <<>>, watch_complete |-> 0,
                cwd |-> NoStr]
        s1 == [s EXCEPT !.wobj = With(@, w, rec)]
        s2 == update_curdir(s1, w, IF remember_curdir = "None" THEN "True" ELSE remember_curdir)
    IN [s |-> reconnect(s2, w), w |-> w]

\* _PathWatch.update
PathWatch_update(s, w, newmask, remember_curdir) ==
    LET s1 == update_curdir(s, w, remember_curdir)
        m == IF newmask \cap IN_MASK_ADD # {} THEN s1.wobj[w].mask \cap newmask ELSE newmask
        s2 == [s1 EXCEPT !.wobj[w].mask = m]
        links == LinksOf(s2, w)
        oldlink == Last(links)
    IN IF newmask = {} THEN s1
       ELSE IF s2.wobj[w].watch_complete # 2 THEN s2
       ELSE Let(add_leaf([s2 EXCEPT !.wobj[w].links = Front(links)], w,
                         PosixPath(s2.lobj[oldlink].path)), LAMBDA s3 :
                IF ~Ok(s3) THEN s3
                ELSE Link_remove(s3, oldlink))

\* _PathWatch.remove
PathWatch_remove(s, w) == poplinks_from(s, w, 0)

-----------------------------------------------------------------------------
(* Event dispatch: PathWatcher.read and the handle_event generators.  An   *)
(* Event that a generator yields goes through the body of read's for loop  *)
(* at once, as in the code.                                                *)

\* The getter Event.path_changed: mask & IN_PATH_CHANGED.
path_changed(e) == e.mask \cap IN_PATH_CHANGED # {}

\* read_append that keeps every Event.
read_append_all(s, e, dix) ==
    [s EXCEPT !.hist.dlog[dix].out = Append(@, e),
              !.hist.dlog[dix].kept = Append(@, TRUE),
              !.events = Append(@, e), !.last = e]

\* read_append with the new Event put in front of the list.
read_append_front(s, e, dix) ==
    LET dup == path_changed(e) /\ e = s.last
        s1 == [s EXCEPT !.hist.dlog[dix].out = Append(@, e),
                        !.hist.dlog[dix].kept = Append(@, ~dup)]
    IN IF dup THEN s1
       ELSE [s1 EXCEPT !.events = <<e>> \o @, !.last = e]

\* The body of the for loop of read, for the Event e yielded for the raw event
\* number rawix of this call by the handler number dix.
read_append(s, e, dix) ==
    LET dup == path_changed(e) /\ e = s.last
        s1 == [s EXCEPT !.hist.dlog[dix].out = Append(@, e),
                        !.hist.dlog[dix].kept = Append(@, ~dup)]
    IN IF dup THEN s1
       ELSE [s1 EXCEPT !.events = Append(@, e), !.last = e]

\* _PathWatch._eventmap, in the order it is written.
eventmap ==
    << <<IN_MOVED_FROM \cup IN_MOVE_SELF, IN_PATH_MOVED_FROM>>,
       <<IN_MOVED_TO, IN_PATH_MOVED_TO>>,
       <<IN_DELETE \cup IN_DELETE_SELF \cup IN_IGNORED, IN_PATH_DELETE>>,
       <<IN_CREATE, IN_PATH_CREATE>>,
       <<IN_UNMOUNT, IN_PATH_UNMOUNT>> >>

\* The entries of _eventmap that the mask matches.
EventTypes(mask) == {i \in 1..Len(eventmap) : mask \cap eventmap[i][1] # {}}

\* What the loop over _eventmap leaves in evttype: the last match.
LastEventType(mask) ==
    eventmap[CHOOSE i \in EventTypes(mask) : \A j \in EventTypes(mask) : j <= i][2]

\* namedtuple syntheticevent
syntheticevent(mask, ck, name, wd) == RawEvent(wd, mask, ck, name)

\* No descriptor calls the link l, and l has no descriptor.
Unregistered(s, l) ==
    /\ s.lobj[l].wd = NoWd
    /\ \A d \in DOMAIN s.dobj : \A n \in DOMAIN s.dobj[d].callbacks :
          l \notin Range(s.dobj[d].callbacks[n])

\* What the handler left of the watch w, whose links were `links` when the event
\* came: how many links, the completion, and whether every link that is no
\* longer in the chain is unregistered.
NoAfter == [nlinks |-> -1, complete |-> -1, cut |-> FALSE]

After(s, w, links) ==
    [nlinks |-> Len(LinksOf(s, w)), complete |-> s.wobj[w].watch_complete,
     cut |-> \A l \in Range(links) \ Range(LinksOf(s, w)) : Unregistered(s, l)]

\* A log entry for one call of _PathWatch.handle_event.
Dispatch(s, w, l, event, leaf) ==
    [rawix |-> Len(s.hist.raws), raw |-> event, watch |-> w, link |-> l,
     path |-> s.wobj[w].path, idx |-> s.lobj[l].idx, nlinks |-> Len(LinksOf(s, w)),
     complete |-> s.wobj[w].watch_complete, leaf |-> leaf, out |-> <<>>, kept |-> <<>>,
     wmask |-> s.wobj[w].mask,
     lpath |-> s.lobj[l].path, lname |-> s.lobj[l].name, lrest |-> s.lobj[l].rest,
     done |-> FALSE, after |-> NoAfter]

\* handle_leaf_event without the test of the event against the user's mask.
handle_leaf_event_unmasked(s0, w, event, l) ==
    LET s == [s0 EXCEPT !.hist.dlog = Append(@, Dispatch(s0, w, l, event, TRUE))]
        dix == Len(s.hist.dlog)
        W == s.wobj[w]
        s1 == IF event.mask \cap IN_IGNORED # {}
              THEN LET p == poplinks_from(s, w, s.lobj[l].idx)
                   IN IF Ok(p) /\ event.mask \cap IN_UNMOUNT # {}
                      THEN register_reconnect(p, w) ELSE p
              ELSE s
    IN IF event.mask \cap (W.mask \cup IN_IGNORED) = {} THEN Raise(s, AssertionError)
       ELSE IF ~Ok(s1) THEN s1
       ELSE read_append(s1, Event(event, Str(W.path)), dix)

\* _PathWatch.handle_event, first branch: the event is for the watched target.
handle_leaf_event(s0, w, event, l) ==
    LET s == [s0 EXCEPT !.hist.dlog = Append(@, Dispatch(s0, w, l, event, TRUE))]
        dix == Len(s.hist.dlog)
        W == s.wobj[w]
        s1 == IF event.mask \cap IN_IGNORED # {}
              THEN LET p == poplinks_from(s, w, s.lobj[l].idx)
                   IN IF Ok(p) /\ event.mask \cap IN_UNMOUNT # {}
                      THEN register_reconnect(p, w) ELSE p
              ELSE s
    IN IF event.mask \cap (W.mask \cup IN_IGNORED) = {} THEN Raise(s, AssertionError)
       ELSE IF ~Ok(s1) THEN s1
       ELSE IF event.mask \cap W.mask # {}
       THEN read_append(s1, Event(event, Str(W.path)), dix)
       ELSE s1

\* _PathWatch.handle_event, second branch: the event is for a path element.
handle_element_event(s0, w, event, l) ==
    LET s == [s0 EXCEPT !.hist.dlog = Append(@, Dispatch(s0, w, l, event, FALSE))]
        dix == Len(s.hist.dlog)
        link == s.lobj[l]
        i == IF event.mask \cap (IN_MOVE \cup IN_DELETE \cup IN_CREATE) # {}
             THEN link.idx + 1 ELSE link.idx
        s1 == poplinks_from(s, w, i)
        s2 == IF event.mask \cap (IN_MOVED_TO \cup IN_CREATE \cup IN_UNMOUNT) # {}
              THEN register_reconnect(s1, w) ELSE s1
        self == event.mask \cap (IN_MOVE_SELF \cup IN_DELETE_SELF \cup IN_IGNORED \cup IN_UNMOUNT) # {}
        name == IF self THEN link.path ELSE Str(Join(PosixPath(link.path), link.name))
        evttype == LastEventType(event.mask) \cup (event.mask \cap IN_ISDIR)
    IN IF ~Ok(s1) THEN s1
       ELSE IF ~self /\ link.name = NoStr THEN Raise(s2, TypeError)
       ELSE IF EventTypes(event.mask) = {} THEN Raise(s2, UnboundLocalError)
       ELSE read_append(s2, Event(syntheticevent(evttype, 0, name, event.wd),
                                  Str(s2.wobj[w].path)), dix)

\* _PathWatch.handle_event; the log entry is marked done when the generator ends.
PathWatch_handle_event(s, w, event, l) ==
    LET r == IF s.wobj[w].watch_complete = 2 /\ s.lobj[l].idx = Len(LinksOf(s, w)) - 1
             THEN handle_leaf_event(s, w, event, l)
             ELSE handle_element_event(s, w, event, l)
    IN [r EXCEPT !.hist.dlog[Len(s.hist.dlog) + 1].done = Ok(r),
                 !.hist.dlog[Len(s.hist.dlog) + 1].after = After(r, w, LinksOf(s, w))]

\* _Link.handle_event
Link_handle_event(s, l, event) ==
    IF s.lobj[l].wd = NoWd THEN s
    ELSE PathWatch_handle_event(s, s.lobj[l].watch, event, l)

\* The loop of _Descriptor.handle_event over its copy of the callbacks.
RECURSIVE DispatchAll(_, _, _)
DispatchAll(s, callbacks, event) ==
    IF callbacks = <<>> \/ ~Ok(s) THEN s
    ELSE LET l == Head(callbacks)
         IN IF event.mask \cap (s.lobj[l].mask \cup IN_IGNORED) = {}
            THEN DispatchAll(s, Tail(callbacks), event)
            ELSE LET s1 == [s EXCEPT !.hist.deliv[Len(s.hist.deliv)].called = Append(@, l)]
                 IN DispatchAll(Link_handle_event(s1, l, event), Tail(callbacks), event)

\* dict.get(key, ())
Get(cb, key) == IF key \in DOMAIN cb THEN cb[key] ELSE <<>>

\* The Links _Descriptor.handle_event calls for the raw event, in order.
Callbacks(cb, event) ==
    Get(cb, event.name) \o (IF event.name # NoStr THEN Get(cb, NoStr) ELSE <<>>)

\* What _Descriptor.handle_event leaves of the descriptor d: the exception that
\* ended it, the active flag, the names it still has Links for, and whether the
\* table still has it.
NoLeft == [exc |-> NoErr, active |-> TRUE, names |-> {}, intable |-> TRUE]

Left(s, d) ==
    [exc |-> s.err, active |-> s.dobj[d].active, names |-> DOMAIN s.dobj[d].callbacks,
     intable |-> d \in s.wdtab]

\* _Descriptor.handle_event
Descriptor_handle_event(s, d, event) ==
    LET ignored == event.mask \cap IN_IGNORED # {}
        cb == s.dobj[d].callbacks
        entry == [rawix |-> Len(s.hist.raws), wd |-> d, raw |-> event, callbacks |-> cb,
                  masks |-> [l \in UNION {Range(cb[k]) : k \in DOMAIN cb} |-> s.lobj[l].mask],
                  called |-> <<>>, left |-> NoLeft]
        s0 == [s EXCEPT !.hist.deliv = Append(@, entry)]
        s1 == IF ignored THEN [s0 EXCEPT !.dobj[d].active = FALSE] ELSE s0
        s2 == DispatchAll(s1, Callbacks(s1.dobj[d].callbacks, event), event)
    IN Let(IF ~Ok(s2) \/ ~ignored THEN s2
           ELSE IF DOMAIN s2.dobj[d].callbacks # {} THEN Raise(s2, AssertionError)
           ELSE IF s2.dobj[d].active THEN Raise(s2, AssertionError)
           ELSE removewatch(s2, d), LAMBDA s3 :
           [s3 EXCEPT !.hist.deliv[Len(s0.hist.deliv)].left = Left(s3, d)])

\* for w in a set or the values of a dict: in the order ord gives the objects.
InOrder(ord, S) == SelectSeq(ord, LAMBDA w : w \in S)

RECURSIVE OverflowAll(_, _)
OverflowAll(s, ws) ==
    IF ws = <<>> \/ ~Ok(s) THEN s
    ELSE OverflowAll(queue_overflow(s, Head(ws)), Tail(ws))

\* The watches of the path table as the overflow handling leaves them.
Overflowed(s) ==
    [recon |-> Len(s.hist.recon),
     watches |-> [w \in {s.paths[p] : p \in DOMAIN s.paths} |->
                    [nlinks |-> Len(s.wobj[w].links),
                     complete |-> s.wobj[w].watch_complete,
                     queued |-> w \in s.reconn]]]

\* PathWatcher._handle_descriptorless_event
handle_descriptorless_event(s0, evt, ord) ==
    LET event == Event(evt, NoStr)
        entry == [rawix |-> Len(s0.hist.raws), raw |-> evt, watch |-> -1, link |-> -1,
                  path |-> NoStr, idx |-> -1, nlinks |-> 0, complete |-> -1,
                  leaf |-> FALSE, out |-> <<>>, kept |-> <<>>, wmask |-> {},
                  lpath |-> NoStr, lname |-> NoStr, lrest |-> NoStr, done |-> FALSE,
                  after |-> NoAfter]
        s == [s0 EXCEPT !.hist.dlog = Append(@, entry)]
        s1 == IF event.mask \cap IN_Q_OVERFLOW # {}
              THEN OverflowAll(s, InOrder(ord, {s.paths[p] : p \in DOMAIN s.paths}))
              ELSE s
    IN Let(s1, LAMBDA t :
           IF ~Ok(t) THEN t
           ELSE IF event.mask \cap IN_Q_OVERFLOW = {}
           THEN read_append(t, event, Len(t.hist.dlog))
           ELSE read_append([t EXCEPT !.hist.ovf = Append(@, Overflowed(t))], event,
                            Len(t.hist.dlog)))

\* PathWatcher._read_events, for the raw events evts that one inotify read returned.
RECURSIVE read_events(_, _, _)
read_events(s0, evts, ord) ==
    IF evts = <<>> \/ ~Ok(s0) THEN s0
    ELSE Let(Head(evts), LAMBDA evt :
         Let([s0 EXCEPT !.hist.raws = Append(@, evt)], LAMBDA s :
             read_events(IF evt.wd = -1 THEN handle_descriptorless_event(s, evt, ord)
                         ELSE IF evt.wd \notin s.wdtab THEN Raise(s, KeyError)
                         ELSE Descriptor_handle_event(s, evt.wd, evt),
                         Tail(evts), ord)))

\* PathWatcher._do_reconnect
RECURSIVE ReconnectAll(_, _)
ReconnectAll(s, ws) ==
    IF ws = <<>> \/ ~Ok(s) THEN s
    ELSE ReconnectAll(reconnect(s, Head(ws)), Tail(ws))

do_reconnect(s, ord) == ReconnectAll([s EXCEPT !.reconn = {}], InOrder(ord, s.reconn))

\* A read that cannot return: it waits for, or polls for, events that nothing
\* in the kernel's queue announces.
Hang == [type |-> "Hang", errno |-> None]

\* The inner do-while loop of read: one inotify read per round.
RECURSIVE ReadInner(_, _, _)
ReadInner(s, ord, fuel) ==
    Let(read_events([s EXCEPT !.kq = <<>>], s.kq, ord), LAMBDA s1 :
        IF ~Ok(s1) THEN s1
        ELSE IF s1.pending > 0
        THEN IF fuel = 0 \/ s1.kq = <<>> THEN Raise(s1, Hang)
             ELSE ReadInner(s1, ord, fuel - 1)
        ELSE s1)

\* The outer do-while loop of read.
RECURSIVE ReadOuter(_, _, _)
ReadOuter(s, ord, fuel) ==
    Let(ReadInner(s, ord, fuel), LAMBDA s1 :
    Let(IF Ok(s1) THEN do_reconnect(s1, ord) ELSE s1, LAMBDA s2 :
        IF ~Ok(s2) THEN s2
        ELSE IF s2.pending > 0 \/ s2.reconn # {}
        THEN IF fuel = 0 THEN Raise(s2, Hang) ELSE ReadOuter(s2, ord, fuel - 1)
        ELSE s2))

\* read without the test of the descriptor table.
read_unchecked(s, ord) ==
    IF s.events # <<>> THEN [s |-> [s EXCEPT !.events = <<>>], ret |-> s.events]
    ELSE Let(do_reconnect(s, ord), LAMBDA s1 :
         IF ~Ok(s1) THEN [s |-> s1, ret |-> <<>>]
         ELSE Let(ReadOuter([s1 EXCEPT !.last = NoEvent], ord, Fuel), LAMBDA s2 :
              IF ~Ok(s2) THEN [s |-> s2, ret |-> <<>>]
              ELSE [s |-> [s2 EXCEPT !.events = <<>>], ret |-> s2.events]))

\* PathWatcher.read: [s, ret]
read(s, ord) ==
    IF s.events # <<>> THEN [s |-> [s EXCEPT !.events = <<>>], ret |-> s.events]
    ELSE Let(do_reconnect(s, ord), LAMBDA s1 :
         IF ~Ok(s1) THEN [s |-> s1, ret |-> <<>>]
         ELSE IF s1.wdtab = {} THEN [s |-> Raise(s1, NoFilesException), ret |-> <<>>]
         ELSE Let(ReadOuter([s1 EXCEPT !.last = NoEvent], ord, Fuel), LAMBDA s2 :
              IF ~Ok(s2) THEN [s |-> s2, ret |-> <<>>]
              ELSE [s |-> [s2 EXCEPT !.events = <<>>], ret |-> s2.events]))

-----------------------------------------------------------------------------
(* The public operations of PathWatcher.                                   *)

\* PathWatcher.add: [s, ret].  For a path that is watched already it calls
\* _PathWatch.update with the keyword argument mask; update's parameter is
\* named newmask, so the call raises TypeError before update's body runs.
add(s, pathstr, mask, remember_curdir) ==
    LET path == PosixPath(pathstr)
    IN IF path \in DOMAIN s.paths
       THEN [s |-> Raise(s, TypeError), ret |-> NoStr]
       ELSE Let(NewPathWatch(s, path, mask, remember_curdir), LAMBDA n :
                IF ~Ok(n.s) THEN [s |-> n.s, ret |-> NoStr]
                ELSE [s |-> [n.s EXCEPT !.paths = With(@, path, n.w)], ret |-> Str(path)])

\* PathWatcher.update
update(s, pathstr, newmask, remember_curdir) ==
    LET path == PosixPath(pathstr)
    IN IF path \notin DOMAIN s.paths THEN Raise(s, KeyError)
       ELSE PathWatch_update(s, s.paths[path], newmask, remember_curdir)

\* PathWatcher.remove
remove(s, pathstr) ==
    LET path == PosixPath(pathstr)
    IN IF path \notin DOMAIN s.paths THEN Raise(s, KeyError)
       ELSE Let(PathWatch_remove(s, s.paths[path]), LAMBDA s1 :
                IF ~Ok(s1) THEN s1
                ELSE [s1 EXCEPT !.paths = Without(@, path)])

\* PathWatcher.watches
watches(s) == {Str(p) : p \in DOMAIN s.paths}

\* PathWatcher.getmask
getmask(s, pathstr) == s.wobj[s.paths[PosixPath(pathstr)]].mask

-----------------------------------------------------------------------------
(* Objects that nothing refers to any more leave the heap.                 *)

CallbackLinks(s, D) ==
    UNION {UNION {Range(s.dobj[d].callbacks[k]) : k \in DOMAIN s.dobj[d].callbacks} :
              d \in D \cap DOMAIN s.dobj}

RECURSIVE Reach(_, _, _, _)
Reach(s, W, L, D) ==
    LET W2 == W \cup {s.lobj[l].watch : l \in L}
        L2 == L \cup UNION {Range(s.wobj[w].links) : w \in W} \cup CallbackLinks(s, D)
        D2 == D \cup ({s.lobj[l].wd : l \in L} \cap DOMAIN s.dobj)
    IN IF W2 = W /\ L2 = L /\ D2 = D THEN [W |-> W, L |-> L, D |-> D]
       ELSE Reach(s, W2, L2, D2)

Collect(s) ==
    LET r == Reach(s, {s.paths[p] : p \in DOMAIN s.paths} \cup s.reconn, {}, s.wdtab)
    IN [s EXCEPT !.wobj = [w \in r.W |-> s.wobj[w]],
                 !.lobj = [l \in r.L |-> s.lobj[l]],
                 !.dobj = [d \in r.D |-> s.dobj[d]]]

-----------------------------------------------------------------------------
(* The state machine.                                                      *)

\* The variables as one record, at the start of an operation.
Cur ==
    [fs |-> fs, kwatch |-> kwatch, kq |-> kq, nextwd |-> nextwd, cookie |-> cookie,
     wobj |-> wobj, lobj |-> lobj, dobj |-> dobj, wdtab |-> wdtab, paths |-> paths,
     pending |-> pending, reconn |-> reconn, events |-> events,
     err |-> NoErr, hist |-> [NoHist EXCEPT !.called = hist.called],
     last |-> NoEvent, race |-> NoRace]

Op(name, path, mask, arg) == [name |-> name, path |-> path, mask |-> mask, arg |-> arg]

\* The operation o ends in the state s0, having returned r or raised s0.err.
Commit(s0, o, r, st) ==
    LET s == Collect(s0)
    IN /\ s.nextwd <= MaxWd + 1
       /\ fs' = s.fs /\ kwatch' = s.kwatch /\ kq' = s.kq /\ nextwd' = s.nextwd
       /\ cookie' = s.cookie /\ wobj' = s.wobj /\ lobj' = s.lobj /\ dobj' = s.dobj
       /\ wdtab' = s.wdtab /\ paths' = s.paths /\ pending' = s.pending
       /\ reconn' = s.reconn /\ events' = s.events
       /\ err' = s.err /\ hist' = s.hist /\ op' = o /\ ret' = r /\ steps' = st

\* steps counts the calls of the program and the changes of the filesystem; its
\* field polls is flipped by each read of the event loop of SpecSwap.
ApiStep == [steps EXCEPT !.api = @ + 1]
PollStep == [steps EXCEPT !.polls = 1 - @]
FsStep == [steps EXCEPT !.fs = @ + 1]
CanCall == steps.api < MaxSteps
CanChange == steps.fs < MaxFsOps

\* Orders in which the watch objects of the heap may be iterated.
RECURSIVE Orders(_)
Orders(S) ==
    IF S = {} THEN {<<>>}
    ELSE UNION {{<<x>> \o o : o \in Orders(S \ {x})} : x \in S}

\* The chain of a watch as (descriptor, name, mask) triples.
Chain(s, w) ==
    [i \in 1..Len(s.wobj[w].links) |->
        LET l == s.lobj[s.wobj[w].links[i]] IN <<l.wd, l.name, l.mask>>]

\* The links registered with the descriptor d, each as (watch, index, name,
\* number of links of that watch and index under that name).
LinksAt(s, d) ==
    LET cb == s.dobj[d].callbacks
        Same(k, l) == {i \in 1..Len(cb[k]) : s.lobj[cb[k][i]].watch = s.lobj[l].watch
                                              /\ s.lobj[cb[k][i]].idx = s.lobj[l].idx}
    IN {<<s.lobj[kl[2]].watch, s.lobj[kl[2]].idx, kl[1], Cardinality(Same(kl[1], kl[2]))>> :
           kl \in UNION {{k} \X Range(cb[k]) : k \in DOMAIN cb}}

\* What the properties compare before and after a call.
Snapshot(s) ==
    [paths |-> s.paths,
     watches |-> [w \in {s.paths[p] : p \in DOMAIN s.paths} |->
                    [mask |-> s.wobj[w].mask, complete |-> s.wobj[w].watch_complete,
                     chain |-> Chain(s, w)]],
     table |-> [d \in s.wdtab |-> [mask |-> s.dobj[d].mask, links |-> LinksAt(s, d)]],
     pending |-> s.pending,
     kernel |-> DOMAIN s.kwatch]

NoTrip == [stage |-> "none", path |-> NoStr, wdtab |-> {}, pending |-> 0]

\* The state the watcher is in, with the race its next call meets.
Under(race) == [Cur EXCEPT !.race = race]

\* The bookkeeping of the paths removed and of the add-remove round trip.
Keep == removed' = removed /\ trip' = trip
Forget == removed' = removed /\ trip' = NoTrip

\* add() called while the filesystem is in the race given.
AddUnder(race, pathstr, mask, rc) ==
    /\ CanCall
    /\ \E r \in {add(Under(race), pathstr, mask, rc)} :
       LET new == PosixPath(pathstr) \notin DOMAIN paths /\ Ok(r.s)
           again == PosixPath(pathstr) \in DOMAIN paths
           s == [r.s EXCEPT !.hist.pre = Snapshot(Cur), !.hist.again = again]
       IN /\ Commit(s, Op("add", pathstr, mask, rc), r.ret, ApiStep)
          /\ removed' = IF new THEN removed \ {r.ret} ELSE removed
          /\ trip' = IF new /\ kq = <<>>
                     THEN [stage |-> "added", path |-> r.ret, wdtab |-> wdtab,
                           pending |-> pending]
                     ELSE NoTrip

Add(pathstr, mask, rc) == AddUnder(NoRace, pathstr, mask, rc)

\* add() while another process changes the filesystem.
AddRaced(race, pathstr, mask, rc) == AddUnder(race, pathstr, mask, rc)

Update(pathstr, mask, rc) ==
    /\ CanCall
    /\ PosixPath(pathstr) \in DOMAIN paths
    /\ \E s0 \in {update(Cur, pathstr, mask, rc)} :
          Commit([s0 EXCEPT !.hist.watch = paths[PosixPath(pathstr)],
                            !.hist.pre = Snapshot(Cur)],
                 Op("update", pathstr, mask, rc), NoStr, ApiStep)
    /\ Forget

Remove(pathstr) ==
    /\ CanCall
    /\ PosixPath(pathstr) \in DOMAIN paths
    /\ \E s0 \in {remove(Cur, pathstr)} :
       LET s == [s0 EXCEPT !.hist.watch = paths[PosixPath(pathstr)],
                           !.hist.pre = Snapshot(Cur)]
           p == Str(PosixPath(pathstr))
       IN /\ Commit(s, Op("remove", pathstr, {}, None), NoStr, ApiStep)
          /\ removed' = IF Ok(s) THEN removed \cup {p} ELSE removed
          /\ trip' = IF Ok(s) /\ trip.stage = "added" /\ trip.path = p
                     THEN [trip EXCEPT !.stage = "removed"] ELSE NoTrip

\* The result s of a read with what the read found when it was called; the state
\* it found is kept for the reads that raised NoFilesException.
Found(s) ==
    LET idle == events = <<>> /\ reconn = {} /\ wdtab = {}
    IN IF s.err = NoFilesException
       THEN [s EXCEPT !.hist.rd = [idle |-> idle, kq |-> kq, reconn |-> reconn],
                      !.hist.pre = Snapshot(Cur)]
       ELSE [s EXCEPT !.hist.rd.idle = idle]

\* read() called while the filesystem is in the race given.
ReadStep(race, block, st) ==
    /\ block => kq # <<>> \/ events # <<>>
    /\ \E ord \in Orders(DOMAIN wobj) :
          \E r \in {read(Under(race), ord)} :
             /\ Commit(Found(r.s), Op("read", NoStr, {}, None), r.ret, st)
             /\ removed' = removed
             /\ trip' = IF Ok(r.s) /\ trip.stage \in {"removed", "drained"}
                        THEN [trip EXCEPT !.stage = "drained"] ELSE NoTrip

ReadUnder(race, block) == CanCall /\ ReadStep(race, block, ApiStep)

Read(block) == ReadUnder(NoRace, block)

\* read() while another process changes the filesystem.
ReadRaced(race, block) == ReadUnder(race, block)

Environment(s, name, path) ==
    Commit(s, Op(name, path, {}, None), NoStr, FsStep) /\ Forget

Create(d, n) ==
    /\ CanChange
    /\ fs[d][n] = None /\ HasFree(fs, FileInodes) /\ d \in Linked(fs) \cup {"root"}
    /\ Environment(FsCreate(Cur, d, n), "create", <<d, n>>)

Symlink(d, n, i) ==
    /\ CanChange
    /\ fs[d][n] = None /\ i \notin Linked(fs) /\ d \in Linked(fs) \cup {"root"}
    /\ Environment(FsSymlink(Cur, d, n, i), "symlink", <<d, n>>)

Unlink(d, n, selfFirst) ==
    /\ CanChange
    /\ fs[d][n] # None /\ d \in Linked(fs) \cup {"root"}
    /\ Kind(fs[d][n]) = "dir" => \A m \in Names : fs[fs[d][n]][m] = None
    /\ Environment(FsUnlink(Cur, d, n, selfFirst), "unlink", <<d, n>>)

Rename(d, old, new) ==
    /\ CanChange
    /\ old # new /\ fs[d][old] # None /\ d \in Linked(fs) \cup {"root"}
    /\ fs[d][new] # None => Kind(fs[d][new]) # "dir" /\ Kind(fs[d][old]) # "dir"
    /\ Environment(FsRename(Cur, d, old, new), "rename", <<d, old, new>>)

Open(d, n) ==
    /\ CanChange
    /\ fs[d][n] # None /\ Kind(fs[d][n]) = "file" /\ d \in Linked(fs) \cup {"root"}
    /\ Environment(FsOpen(Cur, d, n), "open", <<d, n>>)

Unmount(d, n) ==
    /\ CanChange
    /\ fs[d][n] # None /\ Kind(fs[d][n]) = "dir" /\ d \in Linked(fs) \cup {"root"}
    /\ Environment(FsUnmount(Cur, d, n), "umount", <<d, n>>)

Overflow ==
    /\ CanChange
    /\ Environment(FsOverflow(Cur), "overflow", NoStr)

\* An unlink while the event queue is full.
LostUnlink(d, n) ==
    /\ CanChange
    /\ fs[d][n] # None /\ d \in Linked(fs) \cup {"root"}
    /\ Kind(fs[d][n]) = "dir" => \A m \in Names : fs[fs[d][n]][m] = None
    /\ Environment(FsLostUnlink(Cur, d, n), "lostunlink", <<d, n>>)

\* The test fixture: a directory holding testfile and testdir.
Fixture ==
    [d \in DirInodes |-> [n \in Names |->
        IF d = "root" /\ n = "testfile" THEN "f1"
        ELSE IF d = "root" /\ n = "testdir" THEN "d1"
        ELSE None]]

\* The fixture of test_alias: testlink is a symlink to testfile.
AliasFixture == [Fixture EXCEPT !["root"]["testlink"] = "s1"]

InitWith(f) ==
    /\ fs = f /\ kwatch = <<>> /\ kq = <<>> /\ nextwd = 1 /\ cookie = 0
    /\ wobj = <<>> /\ lobj = <<>> /\ dobj = <<>> /\ wdtab = {} /\ paths = <<>>
    /\ pending = 0 /\ reconn = {} /\ events = <<>>
    /\ op = Op("init", NoStr, {}, None) /\ ret = NoStr /\ err = NoErr /\ hist = NoHist
    /\ removed = {} /\ trip = NoTrip
    /\ steps = [api |-> 0, fs |-> 0, polls |-> 0]

Init == InitWith(AliasFixture)

UserPaths == {<<"testfile">>, <<"testlink">>, <<"nonexistent">>}
\* The calls of add that the tests make: test_open and test_alias ask for
\* IN_OPEN, test_delete for IN_DELETE_SELF | IN_IGNORED.
UserAdds ==
    {<<p, IN_OPEN>> : p \in UserPaths} \cup {<< <<"testfile">>, IN_DELETE_SELF \cup IN_IGNORED>>}

Next ==
    \/ \E a \in UserAdds : Add(a[1], a[2], "None")
    \/ \E p \in UserPaths : Remove(p)
    \/ Update(<<"testfile">>, IN_OPEN, "None")
    \/ \E b \in BOOLEAN : Read(b)
    \/ Create("root", "nonexistent")
    \/ \E sf \in BOOLEAN : Unlink("root", "testfile", sf)
    \/ Open("root", "testfile")
    \/ Rename("root", "nonexistent", "testfile")

Spec == Init /\ [][Next]_vars

\* A second machine: a path that climbs back out of testdir with '..', beside
\* the plain path to the same file, and what can happen to testdir.
DotsPath == <<"testdir", "..", "testfile">>

InitDots == InitWith(Fixture)

NextDots ==
    \/ \E p \in {<<"testfile">>, DotsPath} : Add(p, IN_OPEN, "None")
    \/ \E p \in {<<"testfile">>, DotsPath} : Remove(p)
    \/ \E b \in BOOLEAN : Read(b)
    \/ Open("root", "testfile")
    \/ Unmount("root", "testdir")
    \/ Rename("root", "testdir", "nonexistent")
    \/ \E sf \in BOOLEAN : Unlink("root", "testdir", sf)

SpecDots == InitDots /\ [][NextDots]_vars

\* A third machine: one watch, and update() called with a mask that replaces,
\* with a mask that carries IN_MASK_ADD, and with the mask 0.
UpdateMasks == {{}, IN_DELETE_SELF, IN_MODIFY \cup IN_MASK_ADD,
                IN_OPEN \cup IN_MODIFY \cup IN_MASK_ADD}

NextMask ==
    \/ Add(<<"testfile">>, IN_OPEN, "None")
    \/ \E m \in UpdateMasks : Update(<<"testfile">>, m, "None")
    \/ \E b \in BOOLEAN : Read(b)
    \/ Open("root", "testfile")
    \/ \E sf \in BOOLEAN : Unlink("root", "testfile", sf)

SpecMask == Init /\ [][NextMask]_vars

-----------------------------------------------------------------------------
(* Observations that the properties below are stated with.                 *)

\* The user path pathstr names something in the filesystem f.
Exists(f, pathstr) == Walk(f, "root", Str(PosixPath(pathstr)), TRUE, 0, Fuel).errno = None

\* The log entries of the handlers that ran during the last operation.
Entries == {hist.dlog[i] : i \in 1..Len(hist.dlog)}

\* The events that can heal a path: the watch is rebuilt when one arrives.
Healing == IN_MOVED_TO \cup IN_CREATE \cup IN_UNMOUNT

Returned(name) == op.name = name /\ err = NoErr
Raised(name) == op.name = name /\ err # NoErr

\* completion states of a _PathWatch
REBUILD_NEEDED == 0
UNWATCHABLE == 1
FULLY_WATCHED == 2

-----------------------------------------------------------------------------
(* C1 *)

\* A read that returns has run reconnect() on every watch one of whose
\* intermediate links received MOVED_TO, CREATE or UNMOUNT during the call.
C1_Rebuilt ==
    Returned("read") =>
        \A e \in Entries :
            (e.link # -1 /\ e.lrest # Str(curdir) /\ e.raw.mask \cap Healing # {})
                => e.watch \in Range(hist.recon)

\* add of a path that does not exist yet returns, with the watch UNWATCHABLE.
C1_AddOfMissingPath ==
    (op.name = "add" /\ hist.recon # <<>> /\ ~Exists(fs, op.path)) =>
        /\ err = NoErr
        /\ PosixPath(op.path) \in DOMAIN paths
        /\ wobj[paths[PosixPath(op.path)]].watch_complete = UNWATCHABLE

\* When the missing path is created, the read that sees the CREATE returns a
\* PATH_CREATE event for the path and leaves the watch FULLY_WATCHED.
C1_CreateHeals ==
    Returned("read") =>
        \A e \in Entries :
            (e.link # -1 /\ e.lrest # Str(curdir) /\ e.raw.mask \cap IN_CREATE # {}
                /\ Exists(fs, Str(e.path)))
                => /\ \E i \in 1..Len(ret) :
                        ret[i].path = Str(e.path) /\ ret[i].mask \cap IN_PATH_CREATE # {}
                   /\ e.watch \in DOMAIN wobj => wobj[e.watch].watch_complete = FULLY_WATCHED

\* C1: whenever MOVED_TO, CREATE or UNMOUNT reaches an intermediate link, the
\* watch is rebuilt before the read returns; in particular add of a path that
\* does not exist yet succeeds and leaves the watch UNWATCHABLE, and creating the
\* path makes the next read return PATH_CREATE and leave it FULLY_WATCHED.
C1_Original == C1_Rebuilt /\ C1_AddOfMissingPath /\ C1_CreateHeals

-----------------------------------------------------------------------------
(* C2 *)

\* The raw events of a link itself, as opposed to those of a directory entry.
SelfEvent(mask) == mask \cap (IN_MOVE_SELF \cup IN_DELETE_SELF \cup IN_IGNORED \cup IN_UNMOUNT) # {}

\* The table of the specification: the PATH_* category of a raw mask.
PathCategory(mask) ==
    IF mask \cap (IN_MOVED_FROM \cup IN_MOVE_SELF) # {} THEN IN_PATH_MOVED_FROM
    ELSE IF mask \cap IN_MOVED_TO # {} THEN IN_PATH_MOVED_TO
    ELSE IF mask \cap (IN_DELETE \cup IN_DELETE_SELF \cup IN_IGNORED) # {} THEN IN_PATH_DELETE
    ELSE IF mask \cap IN_CREATE # {} THEN IN_PATH_CREATE
    ELSE IF mask \cap IN_UNMOUNT # {} THEN IN_PATH_UNMOUNT
    ELSE {}

\* The one synthetic Event that the handler of the log entry e has to yield.
SyntheticFor(e) ==
    LET name == IF SelfEvent(e.raw.mask) THEN e.lpath
                ELSE Str(Join(PosixPath(e.lpath), e.lname))
    IN Event(RawEvent(e.raw.wd, PathCategory(e.raw.mask) \cup (e.raw.mask \cap IN_ISDIR), 0, name),
             Str(e.path))

\* The handler ran for a link that add_path_element made, not add_leaf.
Intermediate(e) == e.link # -1 /\ e.lrest # Str(curdir)

\* C2: every raw event handled by an intermediate link yields exactly one
\* synthetic Event: the PATH_* category of the table, with ISDIR if the raw
\* event has it, cookie 0, the wd of the raw event, the user path, and the full
\* path of the changed component as name.
C2_Original == \A e \in Entries : Intermediate(e) => e.out = <<SyntheticFor(e)>>

\* The same, for the handlers that ran to their end.
C2_WhenDone == \A e \in Entries : (Intermediate(e) /\ e.done) => e.out = <<SyntheticFor(e)>>

\* A handler of an intermediate link is cut short only by the EINVAL of a
\* remove_watch for a watch the kernel had dropped already.
C2_CutShortByEINVAL ==
    \A e \in Entries : (Intermediate(e) /\ ~e.done) => err = OSError("EINVAL")

-----------------------------------------------------------------------------
(* C3 *)

\* The handler took the leaf branch: the watch was FULLY_WATCHED and the link
\* its last.
Leaf(e) == e.link # -1 /\ e.leaf

\* C3 as stated: every raw event dispatched to the leaf link of a FULLY_WATCHED
\* watch yields one public Event with the user path and the raw event's mask,
\* cookie and name.
C3_Original == \A e \in Entries : Leaf(e) => e.out = <<Event(e.raw, Str(e.path))>>

\* C3: a raw event dispatched to the leaf link of a FULLY_WATCHED watch yields
\* one public Event with the user path and the raw event's mask, cookie and
\* name if its mask meets the mask the user asked for, and none otherwise.
C3_LeafEvent ==
    \A e \in Entries :
        Leaf(e) => e.out = IF e.raw.mask \cap e.wmask # {}
                           THEN <<Event(e.raw, Str(e.path))>> ELSE <<>>

\* A read saw the leaf yield an event and saw it keep an IGNORED to itself.
C3_Witness ==
    /\ Returned("read")
    /\ \E e \in Entries : Leaf(e) /\ Len(e.out) = 1 /\ e.out[1].mask = IN_OPEN
    /\ \E e \in Entries : Leaf(e) /\ e.out = <<>> /\ e.raw.mask = IN_IGNORED

-----------------------------------------------------------------------------
(* C4 *)

\* The Events that read kept of those the handlers yielded, handler by handler.
RECURSIVE KeptOf(_)
KeptOf(log) ==
    IF log = <<>> THEN <<>>
    ELSE LET e == Head(log)
         IN SelectSeq([i \in 1..Len(e.out) |-> IF e.kept[i] THEN e.out[i] ELSE NoEvent],
                      LAMBDA x : x # NoEvent) \o KeptOf(Tail(log))

\* C4: within one call of read the Events stand in the order in which their raw
\* events were read, a synthetic event at the place of the raw event that
\* caused it, and the Events of one raw event next to each other.
C4_ReadOrder ==
    (op.name = "read" /\ hist.raws # <<>>) =>
        /\ (IF err = NoErr THEN ret ELSE events) = KeptOf(hist.dlog)
        /\ \A i, j \in 1..Len(hist.dlog) : i <= j => hist.dlog[i].rawix <= hist.dlog[j].rawix
        /\ \A i \in 1..Len(hist.dlog) :
              \A k \in 1..Len(hist.dlog[i].out) :
                  hist.dlog[i].out[k].raw.wd = hist.raws[hist.dlog[i].rawix].wd

\* test_delete: one read returns DELETE_SELF, IGNORED and a synthetic event.
C4_Witness ==
    /\ Returned("read") /\ Len(ret) >= 3
    /\ \E i \in 1..Len(ret) : path_changed(ret[i])
    /\ \E i \in 1..Len(ret) : ~path_changed(ret[i])

-----------------------------------------------------------------------------
(* C5 *)

Deliveries == {hist.deliv[i] : i \in 1..Len(hist.deliv)}

\* The links a raw event is meant for: those registered under its name and, if
\* it has a name, those registered under no name, whose mask it meets.
MeantFor(d) ==
    LET keys == {d.raw.name, NoStr} \cap DOMAIN d.callbacks
    IN {l \in UNION {Range(d.callbacks[k]) : k \in keys} :
           d.raw.mask \cap (d.masks[l] \cup IN_IGNORED) # {}}

Count(seq, x) == Cardinality({i \in 1..Len(seq) : seq[i] = x})

\* C5: a raw event on a descriptor is delivered exactly once to each link
\* registered under its name or under no name whose mask meets
\* raw.mask | IGNORED, and to no other link.
C5_Original ==
    \A d \in Deliveries :
        /\ Range(d.called) = MeantFor(d)
        /\ \A l \in MeantFor(d) : Count(d.called, l) = 1

\* The same for the dispatches that no exception cut short.
C5_WhenDone == Returned("read") => C5_Original

\* The leaf links of two watches share a descriptor: one raw event, one Event
\* for each watch.
C5_SharedLeaf ==
    Returned("read") =>
        \A d \in Deliveries :
            \A l \in MeantFor(d) :
                (\E e \in Entries : e.link = l /\ e.rawix = d.rawix /\ Leaf(e)
                                    /\ d.raw.mask \cap e.wmask # {})
                    => \E i \in 1..Len(ret) : ret[i].raw = d.raw /\ 
                          \E e \in Entries : e.link = l /\ ret[i].path = Str(e.path)

-----------------------------------------------------------------------------
(* C7 *)

RegisteredLinks ==
    UNION {UNION {Range(dobj[d].callbacks[k]) : k \in DOMAIN dobj[d].callbacks} : d \in DOMAIN dobj}

\* After remove(p): p is no key of the path table and no link of its watch is
\* registered with a descriptor.
C7_Detached ==
    Returned("remove") =>
        /\ Str(PosixPath(op.path)) \notin watches(Cur)
        /\ \A l \in RegisteredLinks : lobj[l].watch # hist.watch

\* A removed watch does not wait for reconnect().
C7_NotReconnected == Returned("remove") => hist.watch \notin reconn

\* No read returns an Event for a path that was removed and not added again.
C7_Silent == op.name = "read" => \A i \in 1..Len(ret) : ret[i].path \notin removed

\* C7: after remove(p) the path is no longer watched, none of its links is
\* registered, the watch is never reconnected and no later read returns an
\* Event for p unless p is added again.
C7_Original == C7_Detached /\ C7_NotReconnected /\ C7_Silent

-----------------------------------------------------------------------------
(* C8 *)

\* C8: add(p, m), then remove(p), then a read that drains the kernel's IGNORED
\* events: the descriptor table and the pending counter are what they were
\* before the add.
C8_RoundTrip ==
    trip.stage = "drained" => wdtab = trip.wdtab /\ pending = trip.pending

\* The trip was made with a path whose watch had descriptors of its own.
C8_Witness ==
    /\ trip.stage = "drained" /\ Returned("read") /\ hist.raws # <<>>
    /\ \E i \in 1..Len(hist.raws) : hist.raws[i].mask = IN_IGNORED

-----------------------------------------------------------------------------
(* C10 *)

\* C10: every add of a path that can be watched returns the normalized path
\* string, the one the Events of the watch carry, whether the path was watched
\* before the call or not.
C10_Original ==
    (op.name = "add" /\ (err = NoErr \/ hist.again)) =>
        /\ err = NoErr
        /\ ret = Str(PosixPath(op.path))
        /\ ret = Str(wobj[paths[PosixPath(op.path)]].path)

-----------------------------------------------------------------------------
(* C6 *)

\* The descriptors that links of other watches were registered with when
\* remove() was called for the watch hist.watch.
SharedBefore ==
    {d \in DOMAIN hist.pre.table :
        \E x \in hist.pre.table[d].links : x[1] # hist.watch}

\* C6: removing a watch gives to remove_watch only descriptors whose last link
\* went with it; a descriptor that another watch has links on stays in the
\* table with those links and keeps its kernel watch, so that the other watch
\* goes on receiving events.
C6_Frame ==
    op.name = "remove" =>
        /\ \A d \in Range(hist.rmcalls) :
              /\ d \in DOMAIN hist.pre.table /\ d \notin SharedBefore
              /\ LinksAt(Cur, d) = {}
        /\ \A d \in SharedBefore :
              /\ d \in wdtab
              /\ {x \in LinksAt(Cur, d) : x[1] # hist.watch}
                    = {x \in hist.pre.table[d].links : x[1] # hist.watch}
              /\ d \in hist.pre.kernel => d \in DOMAIN kwatch

\* One watch was removed: a descriptor of its own went to remove_watch, one it
\* shared stayed behind with the links of the other watch.
C6_Witness ==
    /\ Returned("remove") /\ hist.rmcalls # <<>>
    /\ \E d \in SharedBefore : LinksAt(Cur, d) # {} /\ LinksAt(Cur, d) # hist.pre.table[d].links
    /\ \E d \in SharedBefore : d \in DOMAIN kwatch

-----------------------------------------------------------------------------
(* C9 *)

\* C9: add(p, m) for a path that add(p, m) made watched returns and changes
\* nothing: the path table, the watch's mask, completion state and chain, the
\* descriptor table and the pending counter are what the first call left.
C9_Original ==
    (op.name = "add" /\ hist.again) =>
        /\ err = NoErr
        /\ Snapshot(Cur).paths = hist.pre.paths
        /\ Snapshot(Cur).watches = hist.pre.watches
        /\ Snapshot(Cur).table = hist.pre.table
        /\ Snapshot(Cur).pending = hist.pre.pending

\* What the second add does: it raises TypeError and leaves everything alone.
C9_Refused ==
    (op.name = "add" /\ hist.again) =>
        /\ err = TypeError
        /\ Snapshot(Cur) = hist.pre

\* add of a path that is not watched yet returns the normalized path string.
C10_FirstAdd ==
    Returned("add") =>
        /\ ret = Str(PosixPath(op.path))
        /\ ret = Str(wobj[paths[PosixPath(op.path)]].path)

-----------------------------------------------------------------------------
(* C11 *)

\* The mask the watch of the last update() had before the call.
OldMask == hist.pre.watches[hist.watch].mask

\* update() with a mask that does not carry IN_MASK_ADD: the mask becomes
\* newmask, or stays what it was when newmask is 0.
C11_Replace ==
    (op.name = "update" /\ op.mask \cap IN_MASK_ADD = {}) =>
        getmask(Cur, op.path) = (IF op.mask = {} THEN OldMask ELSE op.mask)

\* update() with a mask that carries IN_MASK_ADD: the mask becomes the union
\* of the old mask and newmask.
C11_Merge ==
    (op.name = "update" /\ op.mask \cap IN_MASK_ADD # {}) =>
        getmask(Cur, op.path) = OldMask \cup op.mask

\* C11: update(p, newmask) makes the mask of the watch the union of the old mask
\* and newmask when newmask carries IN_MASK_ADD, newmask when it does not and is
\* not 0, and leaves it alone when newmask is 0; getmask(p) returns that mask.
C11_Original == C11_Replace /\ C11_Merge

\* What update() does with IN_MASK_ADD: it keeps the bits the two masks share.
C11_Intersects ==
    (op.name = "update" /\ op.mask \cap IN_MASK_ADD # {}) =>
        getmask(Cur, op.path) = OldMask \cap op.mask

-----------------------------------------------------------------------------
(* Queue overflow.                                                         *)

NextOverflow ==
    \/ \E n \in {"testfile", "testlink"} : Add(<<n>>, IN_OPEN, "None")
    \/ \E b \in BOOLEAN : Read(b)
    \/ Open("root", "testfile")
    \/ Overflow
    \/ LostUnlink("root", "testfile")

SpecOverflow == Init /\ [][NextOverflow]_vars

\* The read took an IN_Q_OVERFLOW raw event from the kernel.
ReadOverflow ==
    op.name = "read" /\ \E i \in 1..Len(hist.raws) : hist.raws[i].mask \cap IN_Q_OVERFLOW # {}

Watched == {paths[p] : p \in DOMAIN paths}

\* Every watch of the path table was cut back to its first link, marked
\* REBUILD_NEEDED and queued when the overflow had been handled.
C12_Collapsed ==
    ReadOverflow /\ hist.ovf # <<>> =>
        \A i \in 1..Len(hist.ovf) : \A w \in DOMAIN hist.ovf[i].watches :
            /\ hist.ovf[i].watches[w].nlinks <= 1
            /\ hist.ovf[i].watches[w].complete = REBUILD_NEEDED
            /\ hist.ovf[i].watches[w].queued

\* The read that handled an overflow returned the overflow event without a path,
\* and reconnect() ran on every watch after the overflow and before the return.
C12_Returned ==
    ReadOverflow /\ err = NoErr =>
        /\ \E k \in 1..Len(ret) : ret[k].mask \cap IN_Q_OVERFLOW # {} /\ ret[k].path = NoStr
        /\ hist.ovf # <<>>
        /\ \A w \in Watched :
              \E j \in (hist.ovf[1].recon + 1)..Len(hist.recon) : hist.recon[j] = w

\* C12: a read that takes an IN_Q_OVERFLOW raw event cuts every watch back to its
\* first link, marks it REBUILD_NEEDED and queues it; it returns the overflow
\* event with no path, after reconnect() has run on every watch.
C12_Original ==
    /\ ReadOverflow => err = NoErr
    /\ C12_Collapsed
    /\ C12_Returned

C12_Witness ==
    /\ ReadOverflow /\ err = NoErr /\ hist.ovf # <<>>
    /\ Cardinality(Watched) = 2
    /\ \E k \in 1..Len(ret) : ret[k].mask \cap IN_Q_OVERFLOW # {}

-----------------------------------------------------------------------------
(* read with nothing to watch.                                             *)

\* A read that finds nothing buffered, nothing to reconnect and no descriptor
\* raises NoFilesException.
C13_Raises == op.name = "read" /\ hist.rd.idle => err = NoFilesException

\* A read that raised NoFilesException took nothing from the kernel and left the
\* watcher as it found it.
C13_Untouched ==
    op.name = "read" /\ err = NoFilesException =>
        /\ hist.raws = <<>> /\ kq = hist.rd.kq
        /\ wdtab = {} /\ events = <<>>
        /\ Snapshot(Cur) = hist.pre
        /\ reconn = hist.rd.reconn

\* C13: a read with no event buffered and, after the first reconnection pass, no
\* descriptor alive raises NoFilesException; it reads nothing from the kernel and
\* changes nothing of the watcher.
C13_NoFiles == C13_Raises /\ C13_Untouched

C13_Witness ==
    /\ op.name = "read" /\ err = NoFilesException /\ hist.rd.idle
    /\ kq # <<>>

\* A read that returned normally had events buffered or descriptors to read from.
C13_Normal == Returned("read") => ~hist.rd.idle

-----------------------------------------------------------------------------
(* The filesystem changing while reconnect() resolves a path.              *)

\* testdir holds a file of its own.
RaceFixture == [Fixture EXCEPT !["d1"]["testfile"] = "f2"]

InitRace == InitWith(RaceFixture)

RacePoints == 1..2

\* readlink() failing with ENOTDIR or ELOOP, which an unchanging filesystem
\* does not give the resolver: add_watch with IN_ONLYDIR has passed by then.
Races ==
    {[at |-> k, errno |-> "ENOTDIR", isdir |-> b, swap |-> FALSE] :
        k \in RacePoints, b \in BOOLEAN}
    \cup {[at |-> k, errno |-> "ELOOP", isdir |-> FALSE, swap |-> FALSE] : k \in RacePoints}

\* A file in a directory, and a path through a file.
RacePaths == {<<"testdir", "testfile">>, <<"testfile", "testfile">>}

NextRace ==
    \/ \E p \in RacePaths : Add(p, IN_OPEN, "None")
    \/ \E r \in Races : AddRaced(r, <<"testdir", "testfile">>, IN_OPEN, "None")
    \/ \E b \in BOOLEAN : Read(b)
    \/ \E r \in Races : ReadRaced(r, FALSE)
    \/ Open("d1", "testfile")
    \/ \E sf \in BOOLEAN : Unlink("d1", "testfile", sf)
    \/ Create("d1", "testfile")

SpecRace == InitRace /\ [][NextRace]_vars

Faults == {hist.faults[i] : i \in 1..Len(hist.faults)}

Concurrent(f) == f.exc.type = "ConcurrentFilesystemModificationError"

\* C14: a ConcurrentFilesystemModificationError that the resolver raises in
\* reconnect() does not reach the caller of add() or read(): reconnect() returns
\* normally, the watch stays REBUILD_NEEDED and keeps the links it had.
C14_Concurrent ==
    /\ err.type # "ConcurrentFilesystemModificationError"
    /\ \A f \in Faults :
          Concurrent(f) =>
             /\ f.raised = NoErr
             /\ f.complete = REBUILD_NEEDED
             /\ f.kept = f.links

C14_Witness ==
    /\ op.name = "add" /\ err = NoErr
    /\ \E f \in Faults : Concurrent(f) /\ Len(f.links) = 2 /\ f.kept = f.links

\* The same in a read.
C14_WitnessRead ==
    /\ op.name = "read"
    /\ \E f \in Faults : Concurrent(f) /\ f.links # <<>> /\ f.raised = NoErr

-----------------------------------------------------------------------------
(* Path faults in reconnect().                                             *)

ResolverFaults == {"FileNotFoundError", "NotADirectoryError", "SymlinkLoopError"}

\* The fault f is one of a path: an exception class of the resolver, or an
\* OSError of a system call with one of the four error numbers.
PathFault(f) ==
    \/ f.exc.type \in ResolverFaults
    \/ f.exc.type = "OSError" /\ f.exc.errno \in PathFaults

\* reconnect() took the fault f: it returned, the watch UNWATCHABLE, with the
\* links it had and out of the reconnection set.
Taken(f) ==
    /\ f.raised = NoErr
    /\ f.complete = UNWATCHABLE
    /\ f.kept = f.links
    /\ ~f.queued

\* C15: a path fault (ENOENT, ENOTDIR, EACCES, ELOOP, a symlink loop) in a
\* reconnect() that read() runs is not raised: reconnect() returns with the watch
\* UNWATCHABLE, its links kept, and the watch not in the reconnection set.
C15_Original == op.name = "read" => \A f \in Faults : PathFault(f) => Taken(f)

\* The faults that are OSErrors of system calls are taken.
C15_SystemCall ==
    \A f \in Faults : f.exc.type = "OSError" /\ f.exc.errno \in PathFaults => Taken(f)

\* The exceptions of the resolver's own classes leave reconnect() as they came.
C15_Reraised ==
    \A f \in Faults : f.exc.type \in ResolverFaults =>
        f.raised = f.exc /\ f.complete = REBUILD_NEEDED /\ f.kept = f.links

-----------------------------------------------------------------------------
(* Faults of the path in the first add().                                  *)

\* The fixture with a file in testdir and testlink a symlink to itself.
FaultFixture == [RaceFixture EXCEPT !["root"]["testlink"] = "s2"]

InitFaults == InitWith(FaultFixture)

\* A missing file, a symlink loop, a path through a file, a file in a directory.
FaultPaths ==
    {<<"nonexistent">>, <<"testlink">>, <<"testfile", "testfile">>, <<"testdir", "testfile">>}

NextFaults ==
    \/ \E p \in FaultPaths : Add(p, IN_OPEN, "None")
    \/ \E r \in Races : AddRaced(r, <<"testdir", "testfile">>, IN_OPEN, "None")
    \/ \E p \in FaultPaths : Remove(p)
    \/ Read(FALSE)

SpecFaults == InitFaults /\ [][NextFaults]_vars

FirstAdd == op.name = "add" /\ ~hist.again

\* The fault f is a missing path, a component that is no directory, or a
\* symlink loop, whoever found it.
ResolutionError(f) ==
    \/ f.exc.type \in ResolverFaults
    \/ f.exc.type = "OSError" /\ f.exc.errno \in {"ENOENT", "ENOTDIR", "ELOOP"}

\* C16: the first add() of a path raises every resolution error it meets: a
\* missing path, a component that is no directory, a symlink loop.
C16_Original ==
    FirstAdd => \A f \in Faults : ResolutionError(f) => err = f.exc

\* The first add() raises the exceptions of the resolver's classes and leaves the
\* path unwatched; a fault that a system call reports is not raised: the add()
\* returns and the watch is in the table, UNWATCHABLE.
C16_Surfaced ==
    FirstAdd =>
        \A f \in Faults :
            /\ f.exc.type \in ResolverFaults =>
                  err = f.exc /\ PosixPath(op.path) \notin DOMAIN paths
            /\ f.exc.type = "OSError" /\ f.exc.errno \in {"ENOENT", "ENOTDIR", "ELOOP"} =>
                  /\ err = NoErr /\ PosixPath(op.path) \in DOMAIN paths
                  /\ wobj[paths[PosixPath(op.path)]].watch_complete = UNWATCHABLE

C16_Witness ==
    /\ FirstAdd /\ err.type = "SymlinkLoopError"
    /\ \E f \in Faults : f.exc = err

C16_WitnessMissing == FirstAdd /\ err.type = "FileNotFoundError" /\ Faults # {}
C16_WitnessNotDir == FirstAdd /\ err.type = "NotADirectoryError" /\ Faults # {}
C16_WitnessSilent ==
    FirstAdd /\ err = NoErr /\ \E f \in Faults : f.exc = OSError("ENOTDIR")

-----------------------------------------------------------------------------
(* The watched file is deleted.                                            *)

\* The entries of the log that are of the watch w, in the order they were made.
EntriesOf(w) == SelectSeq(hist.dlog, LAMBDA e : e.watch = w)

\* The read took the deletion of testfile for the watch w of the path testfile,
\* which was FULLY_WATCHED on its two links when the first event reached it; the
\* deletion is all that happened to the path, and w is the only watch there is.
LeafDeleted(w) ==
    /\ op.name = "read"
    /\ paths = (<<"testfile">> :> w) /\ \A l \in DOMAIN lobj : lobj[l].watch = w
    /\ fs["root"]["testfile"] = None
    /\ EntriesOf(w) # <<>>
    /\ EntriesOf(w)[1].complete = FULLY_WATCHED /\ EntriesOf(w)[1].nlinks = 2
    /\ \A i \in 1..Len(hist.raws) :
          hist.raws[i].mask \cap (IN_MOVE \cup IN_CREATE \cup IN_Q_OVERFLOW) = {}
    /\ \E e \in Entries : e.watch = w /\ e.raw.mask \cap (IN_DELETE \cup IN_IGNORED) # {}

\* The events of the read that are path_delete and path_changed.
PathDeletes ==
    {k \in 1..Len(ret) : ret[k].mask \cap IN_PATH_DELETE # {} /\ path_changed(ret[k])}

\* The read returned one PATH_DELETE | PATH_CHANGED event, of the path testfile,
\* its name ending in testfile.
C17_Event ==
    \A w \in DOMAIN wobj : LeafDeleted(w) =>
        /\ err = NoErr
        /\ Cardinality(PathDeletes) = 1
        /\ \A k \in PathDeletes : ret[k].path = <<"testfile">> /\ Last(ret[k].name) = "testfile"

\* The watch is UNWATCHABLE after the read.
C17_Unwatchable ==
    \A w \in DOMAIN wobj : LeafDeleted(w) /\ err = NoErr =>
        wobj[w].watch_complete = UNWATCHABLE

\* No descriptor is left once no IGNORED is awaited.
C17_NoDescriptor ==
    \A w \in DOMAIN wobj : LeafDeleted(w) /\ err = NoErr /\ pending = 0 => wdtab = {}

\* C17: when the file of a FULLY_WATCHED one-component path is deleted, read
\* returns one PATH_DELETE | PATH_CHANGED event whose name ends in the file name;
\* the watch is UNWATCHABLE then and, with no IGNORED awaited, the descriptor
\* table is empty.
C17_Original == C17_Event /\ C17_Unwatchable /\ C17_NoDescriptor

\* The link on the working directory keeps its descriptor.
C17_ParentKept ==
    \A w \in DOMAIN wobj : LeafDeleted(w) /\ err = NoErr =>
        /\ Len(wobj[w].links) = 1 /\ Cardinality(wdtab) = 1
        /\ Cardinality(PathDeletes) = 1

C17_Reached == \E w \in DOMAIN wobj : LeafDeleted(w) /\ err = NoErr
C17_ReachedError == \E w \in DOMAIN wobj : LeafDeleted(w) /\ err # NoErr

-----------------------------------------------------------------------------
(* The path table under filesystem events.                                 *)

\* C18: no step but a remove() takes a path out of the path table: whatever
\* happens to the files, and whatever a read makes of it, watches() goes on
\* listing every path that was added.
C18_TableKept ==
    [][op'.name # "remove" => watches(Cur) \subseteq {Str(p) : p \in DOMAIN paths'}]_vars

\* A read delivered DELETE_SELF, IGNORED and the PATH_DELETE event of the watched
\* file, and the path is listed still.
C18_Witness ==
    /\ Returned("read") /\ Len(ret) = 3
    /\ ret[1].mask = IN_DELETE_SELF /\ ret[2].mask = IN_IGNORED
    /\ ret[3].mask \cap IN_PATH_DELETE # {}
    /\ watches(Cur) = {<<"testfile">>}
    /\ fs["root"]["testfile"] = None

-----------------------------------------------------------------------------
(* What read leaves behind.                                                *)

\* C19: when a read that read the kernel returns, no IGNORED is awaited, no watch
\* awaits reconnection and the buffer of events is empty.
C19_Original ==
    Returned("read") /\ hist.raws # <<>> => pending = 0 /\ reconn = {} /\ events = <<>>

\* The loop of read does not end while an IGNORED is awaited or a watch awaits
\* reconnection, and read hands out all that it buffered.
C19_Loop ==
    Returned("read") /\ hist.raws # <<>> => pending <= 0 /\ reconn = {} /\ events = <<>>

\* A read returned that had scheduled a removal and had a watch to reconnect.
C19_Witness ==
    /\ Returned("read") /\ hist.raws # <<>>
    /\ hist.rmcalls # <<>> /\ hist.recon # <<>>
    /\ \E i \in 1..Len(hist.raws) : hist.raws[i].mask \cap IN_IGNORED # {}

-----------------------------------------------------------------------------
(* Equal path-changed events.                                              *)

\* The Events the handlers of a read yielded, in the order they yielded them.
RECURSIVE Yields(_)
Yields(log) == IF log = <<>> THEN <<>> ELSE Head(log).out \o Yields(Tail(log))

\* evs as a list that starts empty takes them: a path-changed Event equal to
\* the one the list ends in is left out.
RECURSIVE Coalesced(_, _)
Coalesced(acc, evs) ==
    IF evs = <<>> THEN acc
    ELSE Coalesced(IF path_changed(Head(evs)) /\ acc # <<>> /\ Head(evs) = Last(acc)
                   THEN acc ELSE Append(acc, Head(evs)),
                   Tail(evs))

\* The Events a read has to show: returned, or buffered when it raised.
Got == IF err = NoErr THEN ret ELSE events

\* C20: in one read a path-changed Event equal to the Event put in the list just
\* before it is left out, so no two neighbours of the list are equal
\* path-changed Events; the Events that are not path-changed are all in the
\* list, equal ones too.
C20_Coalesce ==
    (op.name = "read" /\ hist.raws # <<>>) =>
        /\ Got = Coalesced(<<>>, Yields(hist.dlog))
        /\ \A k \in 1..(Len(Got) - 1) : path_changed(Got[k + 1]) => Got[k + 1] # Got[k]
        /\ SelectSeq(Got, LAMBDA e : ~path_changed(e))
              = SelectSeq(Yields(hist.dlog), LAMBDA e : ~path_changed(e))

\* A read left a path-changed Event out.
C20_Witness ==
    /\ Returned("read") /\ hist.raws # <<>>
    /\ Len(ret) < Len(Yields(hist.dlog))
    /\ \E k \in 1..Len(ret) : path_changed(ret[k])

-----------------------------------------------------------------------------
(* The path resolver by itself.                                            *)

\* Directories to resolve in: files, symlinks to a file, to each other and to
\* themselves, in the working directory and in testdir.
RootEntries ==
    [testfile : {None, "f1", "s2"}, testlink : {None, "s1", "s2"},
     testdir : {None, "d1"}, nonexistent : {None, "s2"}]

SubEntries ==
    [testfile : {None, "f2", "s1"}, testlink : {None, "s1"},
     testdir : {None}, nonexistent : {None}]

ResolveFilesystems ==
    {[d \in DirInodes |-> IF d = "root" THEN r ELSE e] : r \in RootEntries, e \in SubEntries}

ResolvePaths ==
    {<<"testfile">>, <<"testlink">>, <<"nonexistent">>, <<"testdir", "testfile">>,
     <<"testdir", "testlink">>, <<"testdir", "..", "testlink">>, <<"..", "testfile">>,
     <<"/", "testdir", "testfile">>, <<"testfile", "testfile">>,
     <<"testlink", "testfile">>, <<".">>, <<"/", "..", "testfile">>}

InitResolve == \E f \in ResolveFilesystems : InitWith(f)

\* resolve_path(path) run to its end: the pairs it yielded and the exception, if
\* any, that ended it.
Resolve(path) ==
    /\ \E r \in {resolve_path(fs, path)} :
          /\ op' = Op("resolve", path, {}, None)
          /\ ret' = r.ys
          /\ err' = r.exc
    /\ UNCHANGED <<fs, kwatch, kq, nextwd, cookie, wobj, lobj, dobj, wdtab, paths,
                   pending, reconn, events, hist, removed, trip, steps>>

NextResolve == \E p \in ResolvePaths : Resolve(p)

SpecResolve == InitResolve /\ [][NextResolve]_vars

\* What the kernel makes of the path p, symlinks followed.
Denotes(p) == Walk(fs, "root", Str(p), TRUE, 0, Fuel)

\* No component of the directory path p is a symlink, and p is there.
SymlinkFree(p) ==
    \A k \in 1..Len(p) :
        LET w == Walk(fs, "root", SubSeq(p, 1, k), FALSE, 0, Fuel)
        IN w.errno = None /\ Kind(w.inode) # "link"

\* Every pair has a directory free of symlinks.
C21_Resolved == op.name = "resolve" => \A i \in 1..Len(ret) : SymlinkFree(ret[i].loc)

\* Every pair denotes what the path denotes.
C21_SameTarget ==
    op.name = "resolve" =>
        \A i \in 1..Len(ret) : Denotes(Join(ret[i].loc, ret[i].rest)) = Denotes(PosixPath(op.path))

\* A run that ends without an exception ends in a pair with nothing remaining,
\* whose directory is what the path denotes.
C21_Final ==
    op.name = "resolve" /\ err = NoErr =>
        /\ ret # <<>> /\ Last(ret).rest = curdir
        /\ Denotes(PosixPath(op.path)).errno = None
        /\ Walk(fs, "root", Str(Last(ret).loc), FALSE, 0, Fuel) = Denotes(PosixPath(op.path))

\* C21: every pair (dir, remaining) that resolve_symlink yields has a dir free of
\* symlinks, and dir joined with remaining denotes what the path denotes; the
\* last pair has nothing remaining and its dir is the target.
C21_Pairs == C21_Resolved /\ C21_SameTarget /\ C21_Final

\* A path through a symlink in a directory was resolved in four pairs or more.
C21_Witness ==
    /\ op.name = "resolve" /\ err = NoErr /\ Len(ret) >= 4
    /\ \E i \in 1..Len(ret) : ret[i].cnt > 0

\* The run came to an end by itself: with a last pair that leaves nothing to
\* resolve, or with an exception of the resolver.
C22_Ends ==
    op.name = "resolve" =>
        /\ err.type # "RecursionError"
        /\ ret # <<>>
        /\ err = NoErr => Last(ret).rest = curdir
        /\ err # NoErr => err.type \in ResolverFaults /\ Last(ret).rest # curdir

\* SymlinkLoopError is raised for the paths that the symlinks keep from
\* resolving, and for no other.
C22_Loop ==
    op.name = "resolve" =>
        (err.type = "SymlinkLoopError" <=> Denotes(PosixPath(op.path)).errno = "ELOOP")

\* C22: on a filesystem that does not change, resolve_symlink terminates, with a
\* final pair that has nothing remaining or with an exception; it raises
\* SymlinkLoopError when it meets a symlink it is resolving already, and only
\* when the symlinks keep the path from resolving.
C22_Terminates == C22_Ends /\ C22_Loop

\* A symlink in testdir that leads back to itself was found after testdir had
\* been entered.
C22_Witness ==
    /\ op.name = "resolve" /\ err.type = "SymlinkLoopError"
    /\ Len(ret) >= 2 /\ Last(ret).loc = <<"testdir">>

-----------------------------------------------------------------------------
(* The numbers of the flags.                                               *)

\* The kernel's flags sit on bits 0..MaxBit.
MaxBit == 6

RECURSIVE Pow2(_)
Pow2(n) == IF n = 0 THEN 1 ELSE 2 * Pow2(n - 1)

\* The bits that are set in n.
BitsOf(n) == {b \in 0..(2 * MaxBit + 8) : (n \div Pow2(b)) % 2 = 1}

RECURSIVE BitsValue(_)
BitsValue(B) == IF B = {} THEN 0 ELSE LET b == CHOOSE x \in B : TRUE
                                      IN Pow2(b) + BitsValue(B \ {b})

\* functools.reduce(operator.or_, values)
OrAll(values) == BitsValue(UNION {BitsOf(v) : v \in values})

\* The constants the kernel defines when its flags are on the bits K: one flag a
\* bit, and a combined mask like IN_MOVE of the two lowest of them.
KernelConstants(K) ==
    LET lo == CHOOSE b \in K : \A c \in K : b <= c
        nx == CHOOSE b \in K \ {lo} : \A c \in K \ {lo} : b <= c
    IN {Pow2(b) : b \in K} \cup {Pow2(lo) + Pow2(nx)}

\* flag = 1; while flag < builtin: flag <<= 1
RECURSIVE Doubled(_, _)
Doubled_once(flag, builtin) == IF flag < builtin THEN 2 * flag ELSE flag

Doubled(flag, builtin) == IF flag < builtin THEN Doubled(2 * flag, builtin) ELSE flag

\* The flag allocated above the constants cs.
Allocated(cs) == Doubled(1, OrAll(cs))

\* n flags allocated one after the other, each above the constants there are
\* when its turn comes.
RECURSIVE AllocatedAll(_, _)
AllocatedAll(cs, n) ==
    IF n = 0 THEN <<>>
    ELSE Let(Allocated(cs), LAMBDA flag : <<flag>> \o AllocatedAll(cs \cup {flag}, n - 1))

\* PATH_MOVED_FROM, PATH_MOVED_TO, PATH_CREATE, PATH_DELETE, PATH_UNMOUNT
PathFlagCount == 5

\* The kernel defines more flags than one.
KernelBits == {K \in SUBSET (0..MaxBit) : Cardinality(K) >= 2}

\* The module is loaded on a kernel with its flags on the bits K: IN_LINK_CHANGED
\* is allocated, and the PATH_* flags are.
Constants(K) ==
    /\ \E cs \in {KernelConstants(K)} :
          /\ op' = Op("constants", cs, {}, None)
          /\ ret' = [link |-> Allocated(cs), path |-> AllocatedAll(cs, PathFlagCount)]
          /\ err' = NoErr
    /\ UNCHANGED <<fs, kwatch, kq, nextwd, cookie, wobj, lobj, dobj, wdtab, paths,
                   pending, reconn, events, hist, removed, trip, steps>>

NextFlags == \E K \in KernelBits : Constants(K)

SpecFlags == Init /\ [][NextFlags]_vars

\* The flag is one bit, a bit that is higher than every bit of the constants cs,
\* and so a number greater than all of them together and disjoint from them.
Above(flag, cs) ==
    /\ Cardinality(BitsOf(flag)) = 1
    /\ \A b \in BitsOf(flag) : \A c \in BitsOf(OrAll(cs)) : b > c
    /\ BitsOf(flag) \cap BitsOf(OrAll(cs)) = {}
    /\ flag > OrAll(cs)

\* C23: the flags allocated by doubling from 1, IN_LINK_CHANGED and the PATH_*
\* flags, are disjoint from every flag of the kernel and greater than the OR of
\* all of them: the doubling ends on a bit above the kernel's highest; and the
\* PATH_* flags differ from each other.
C23_Above ==
    op.name = "constants" =>
        /\ Above(ret.link, op.path)
        /\ \A i \in 1..Len(ret.path) : Above(ret.path[i], op.path)
        /\ \A i, j \in 1..Len(ret.path) : i # j => ret.path[i] # ret.path[j]
        /\ OrAll(Range(ret.path)) > OrAll(op.path)

\* The flags were allocated above kernel flags that leave bits unused between them.
C23_Witness ==
    /\ op.name = "constants" /\ Len(ret.path) = PathFlagCount
    /\ BitsOf(OrAll(op.path)) = {0, 1, 4, MaxBit}
    /\ ret.link = Pow2(MaxBit + 1)

-----------------------------------------------------------------------------
(* The shape of the heap between the calls.                                *)

\* The link l is among the links that the descriptor d calls for l's name.
Registered(l, d) ==
    /\ d \in DOMAIN dobj
    /\ lobj[l].name \in DOMAIN dobj[d].callbacks
    /\ l \in Range(dobj[d].callbacks[lobj[l].name])

\* The links of all the chains.
ChainLinks == UNION {Range(wobj[w].links) : w \in DOMAIN wobj}

\* C24: every Link in the chain of a PathWatch is registered in the link set of
\* its Descriptor under the name of the Link, and that Descriptor is the entry of
\* the descriptor table under its watch descriptor.
C24_Registered ==
    \A l \in ChainLinks :
        /\ lobj[l].wd # NoWd
        /\ lobj[l].wd \in wdtab
        /\ Registered(l, lobj[l].wd)

\* The watches that are fully watched.
FullyWatched == {w \in DOMAIN wobj : wobj[w].watch_complete = FULLY_WATCHED}

\* l is a leaf Link: it has no name and nothing remains to resolve after it.
IsLeaf(l) == lobj[l].name = NoStr /\ lobj[l].rest = Str(curdir)

\* The pairs of a resolution of the path of w, from the directory it was added
\* in, that leave something to resolve: (path, remaining) as the Links keep them.
Traversed(w) ==
    LET r == resolve_symlink(fs, wobj[w].cwd, wobj[w].path, {}, <<>>, 0, Fuel)
        ys == SelectSeq(r.ys, LAMBDA y : y.rest # curdir)
    IN [i \in 1..Len(ys) |-> <<Str(ys[i].loc), Str(ys[i].rest)>>]

\* The Links of w but the last, as (path, remaining).
Before(w) ==
    [i \in 1..(Len(wobj[w].links) - 1) |->
        <<lobj[wobj[w].links[i]].path, lobj[wobj[w].links[i]].rest>>]

\* The last Link of a fully watched PathWatch is the leaf Link, with the mask of
\* the PathWatch, and no Link before it is a leaf.
C25_Leaf ==
    \A w \in FullyWatched :
        /\ wobj[w].links # <<>>
        /\ IsLeaf(Last(wobj[w].links))
        /\ lobj[Last(wobj[w].links)].mask = wobj[w].mask
        /\ \A i \in 1..(Len(wobj[w].links) - 1) : ~IsLeaf(wobj[w].links[i])

\* With no event waiting to be read, the Links before the leaf are those of the
\* directories and symlinks that resolving the path goes through.
C25_Path ==
    kq = <<>> /\ events = <<>> =>
        \A w \in FullyWatched : Before(w) = Traversed(w)

\* C25: if the completion of a PathWatch is FULLY_WATCHED, its last Link is the
\* leaf Link (no name, nothing remaining) with the current user mask of the
\* PathWatch, and the Links before it are the intermediate Links of every
\* directory and symlink traversed in resolving the path.
C25_Chain == C25_Leaf /\ C25_Path

\* C26 as stated: every PathWatch whose completion is not FULLY_WATCHED (REBUILD_NEEDED or
\* UNWATCHABLE) is a member of the reconnection work-set of the watcher.
C26_Original == \A w \in Watched : wobj[w].watch_complete # FULLY_WATCHED => w \in reconn

\* C26: the PathWatches of the work-set are REBUILD_NEEDED, so that none of them
\* is UNWATCHABLE, and a read that returns events it took from the kernel leaves
\* the work-set empty.
C26_Needed ==
    /\ \A w \in reconn : wobj[w].watch_complete = REBUILD_NEEDED
    /\ Returned("read") /\ hist.raws # <<>> => reconn = {}

\* One PathWatch awaits reconnect() while another is UNWATCHABLE and does not.
C26_Witness ==
    /\ \E w \in Watched : w \in reconn
    /\ \E w \in Watched : wobj[w].watch_complete = UNWATCHABLE /\ w \notin reconn

\* What a Link is made with.
ShapeOf(l) ==
    [path |-> lobj[l].path, rest |-> lobj[l].rest, name |-> lobj[l].name, mask |-> lobj[l].mask]

\* The Link that the claim has for the pair y of the resolver, in the watch w.
LinkFor(w, y) ==
    LET base == IN_UNMOUNT \cup IN_ONLYDIR \cup IN_EXCL_UNLINK \cup IN_IGNORED
    IN IF y.rest = curdir
       THEN [path |-> Str(y.loc), rest |-> Str(curdir), name |-> NoStr, mask |-> wobj[w].mask]
       ELSE IF y.rest[1] = ".."
       THEN [path |-> Str(y.loc), rest |-> Str(y.rest), name |-> NoStr,
             mask |-> base \cup IN_MOVE_SELF \cup IN_DELETE_SELF]
       ELSE [path |-> Str(y.loc), rest |-> Str(y.rest), name |-> <<y.rest[1]>>,
             mask |-> base \cup IN_MOVE \cup IN_DELETE \cup IN_CREATE]

\* The pairs of a resolution of the path of w as the filesystem is.
Resolution(w) == resolve_symlink(fs, wobj[w].cwd, wobj[w].path, {}, <<>>, 0, Fuel)

\* The PathWatches that a reconnect() of this call left fully watched.
Reconnected == {w \in Range(hist.recon) : wobj[w].watch_complete = FULLY_WATCHED}

\* The chain is the Links of the pairs, in the order of the resolver.
C27_Order ==
    (Returned("add") \/ Returned("read")) /\ kq = <<>> =>
        \A w \in Reconnected :
            Let(Resolution(w), LAMBDA r :
                /\ r.exc = NoErr
                /\ Len(wobj[w].links) = Len(r.ys)
                /\ \A i \in 1..Len(r.ys) : ShapeOf(wobj[w].links[i]) = LinkFor(w, r.ys[i])
                /\ Last(r.ys).rest = curdir
                /\ \A i \in 1..(Len(r.ys) - 1) : r.ys[i].rest # curdir)

\* A file in the working directory is watched with two Links.
C27_Two ==
    \A w \in Reconnected :
        Len(wobj[w].path) = 1 /\ fs["root"][wobj[w].path[1]] \in FileInodes /\ kq = <<>>
            => Len(wobj[w].links) = 2

\* C27: a reconnect that completes on an unchanged filesystem builds the chain in
\* the order of the resolver: an intermediate Link for every pair with something
\* remaining (UNMOUNT|ONLYDIR|EXCL_UNLINK|IGNORED with MOVE_SELF|DELETE_SELF and
\* no name when '..' comes first, else with MOVE|DELETE|CREATE and the first
\* component for its name), then one leaf Link with the user mask and no name,
\* and the completion FULLY_WATCHED; a file in cwd gives two Links.
C27_Built == C27_Order /\ C27_Two

\* A path with '..' in it was added: a Link for the name, a Link for '..', a
\* Link for the name after it, and the leaf.
C27_Witness ==
    /\ Returned("add") /\ kq = <<>>
    /\ \E w \in Reconnected :
          /\ Len(wobj[w].links) >= 4
          /\ \E i \in 1..Len(wobj[w].links) :
                lobj[wobj[w].links[i]].rest # Str(curdir) /\ lobj[wobj[w].links[i]].name = NoStr

\* The raw event of the entry e tells of a child of the directory of the Link,
\* or of the directory itself.
OnChild(e) == e.raw.mask \cap (IN_MOVE \cup IN_DELETE \cup IN_CREATE) # {}
OnSelf(e) ==
    e.raw.mask \cap (IN_MOVE_SELF \cup IN_DELETE_SELF \cup IN_IGNORED \cup IN_UNMOUNT) # {}

\* The handler of an intermediate Link left the chain cut as the claim has it.
Truncated(e) ==
    /\ OnChild(e) => e.after.nlinks = e.idx + 1
    /\ OnSelf(e) /\ ~OnChild(e) => e.after.nlinks = e.idx
    /\ e.after.cut
    /\ e.after.complete <= UNWATCHABLE

\* C28: when an intermediate Link at index k handles a raw event, the chain is
\* truncated to exactly k+1 Links if the event is MOVE, DELETE or CREATE on a
\* child, and to exactly k Links if it is MOVE_SELF, DELETE_SELF, IGNORED or
\* UNMOUNT on the Link itself; every removed Link is unregistered from its
\* Descriptor and the completion becomes at most UNWATCHABLE.
C28_Original == \A e \in Entries : Intermediate(e) => Truncated(e)

\* The same of the handlers that ran to their end.
C28_WhenDone == \A e \in Entries : Intermediate(e) /\ e.done => Truncated(e)

\* An intermediate Link cut Links off the chain for an event on a child.
C28_WitnessChild ==
    \E e \in Entries : Intermediate(e) /\ e.done /\ OnChild(e) /\ e.nlinks > e.idx + 1

\* The Links that hold a Descriptor whose watch the kernel still has.
HeldLinks == {l \in DOMAIN lobj : lobj[l].wd # NoWd /\ lobj[l].wd \in DOMAIN kwatch}

\* The inode that the Link l watches: the one the kernel has its watch on.
InodeOf(l) == kwatch[lobj[l].wd].inode

\* The inodes that the Links watch.
WatchedInodes == {InodeOf(l) : l \in HeldLinks}

\* The Descriptors of the table whose watch the kernel still has.
Live == {d \in wdtab : d \in DOMAIN kwatch}

\* Links on one inode hold one Descriptor, the one of the table, and are
\* registered on it.
C29_Shared ==
    \A l1, l2 \in HeldLinks :
        InodeOf(l1) = InodeOf(l2) =>
            /\ lobj[l1].wd = lobj[l2].wd
            /\ lobj[l1].wd \in wdtab
            /\ Registered(l1, lobj[l1].wd) /\ Registered(l2, lobj[l2].wd)

C29_Size == Cardinality(wdtab) <= Cardinality(WatchedInodes)

\* C29 as stated: Links that watch the same inode share one Descriptor: the descriptor
\* table holds one Descriptor at most for a watch descriptor of the kernel, and
\* it never holds more Descriptors than there are inodes that the Links watch.
C29_Original == C29_Shared /\ C29_Size

\* The Descriptors whose watch the kernel has are no more than the inodes the
\* Links watch.
C29_LiveSize == Cardinality(Live) <= Cardinality(WatchedInodes)

\* C29: Links on one inode share the Descriptor of the table, and the table has
\* no more Descriptors with a watch in the kernel than the Links watch inodes.
C29_Shares == C29_Shared /\ C29_LiveSize

\* Links of two PathWatches share the Descriptor of the working directory, while
\* the table still holds a Descriptor that the kernel has dropped.
C29_Witness ==
    /\ \E l1, l2 \in HeldLinks :
          lobj[l1].watch # lobj[l2].watch /\ lobj[l1].wd = lobj[l2].wd
    /\ \E d \in wdtab : d \notin DOMAIN kwatch

\* The Descriptors of the table that no Link is registered on.
Empty == {d \in wdtab : DOMAIN dobj[d].callbacks = {}}

\* C30 as stated: every Descriptor in the descriptor table has a set of Links
\* that is not empty.
C30_Original == Empty = {}

\* A Descriptor without Links has lost its watch in the kernel: its removal
\* is under way.
C30_Scheduled == \A d \in Empty : d \notin DOMAIN kwatch

\* The Links that a Descriptor calls hold that Descriptor, and it keeps no name
\* without a Link.
C30_Held ==
    \A d \in wdtab : \A n \in DOMAIN dobj[d].callbacks :
        /\ dobj[d].callbacks[n] # <<>>
        /\ \A l \in Range(dobj[d].callbacks[n]) : lobj[l].wd = d /\ lobj[l].name = n

\* C30: every Descriptor in the descriptor table has Links registered on it, or
\* has lost its watch in the kernel and stays until its IGNORED event is read;
\* the Links registered on a Descriptor are Links that hold it.
C30_LinkedOrLeaving == C30_Scheduled /\ C30_Held

\* The table holds a Descriptor with Links and a Descriptor that is leaving.
C30_Witness == Empty # {} /\ wdtab \ Empty # {}

\* The Links registered on the Descriptor d.
LinksOn(d) == UNION {Range(dobj[d].callbacks[n]) : n \in DOMAIN dobj[d].callbacks}

\* The OR of the masks of the Links registered on d.
MaskOfLinks(d) == UNION {lobj[l].mask : l \in LinksOn(d)}

\* C31: the union-mask of every Descriptor in the table equals the OR of the
\* masks of the Links registered on it, also after Links have been unregistered.
C31_Original == \A d \in wdtab : dobj[d].mask = MaskOfLinks(d)

\* The mask of a Descriptor holds the masks of its Links at least.
C31_AtLeast == \A d \in wdtab : MaskOfLinks(d) \subseteq dobj[d].mask

\* A Descriptor that still has a Link keeps the mask of a Link that is gone.
C31_Stale == \E d \in wdtab : LinksOn(d) # {} /\ dobj[d].mask # MaskOfLinks(d)

\* The deliveries of raw events that carry IN_IGNORED.
IgnoredDeliveries == {d \in Deliveries : d.raw.mask \cap IN_IGNORED # {}}

\* C32: whenever a raw event with IGNORED is dispatched to a Descriptor, the
\* active flag of the Descriptor is false and, when the dispatch is through, no
\* Link is registered on it under any name, the assertions have held, and the
\* Descriptor is gone from the descriptor table.
C32_Original ==
    \A d \in IgnoredDeliveries :
        /\ d.left.exc = NoErr
        /\ ~d.left.active
        /\ d.left.names = {}
        /\ ~d.left.intable

\* The same of the dispatches that no exception ended.
C32_WhenDone ==
    \A d \in IgnoredDeliveries :
        d.left.exc = NoErr => ~d.left.active /\ d.left.names = {} /\ ~d.left.intable

\* The exceptions that end the dispatch of an IGNORED event.
C32_Asserted == \A d \in IgnoredDeliveries : d.left.exc.type # "AssertionError"
C32_NoEinval == \A d \in IgnoredDeliveries : d.left.exc.errno # "EINVAL"

-----------------------------------------------------------------------------
(* C33 *)

\* The calls of _signal_empty_watch and of _removewatch of the last operation.
Emptyings == Range(hist.empt)
Removals == Range(hist.gone)
RemovalsOf(d) == {i \in DOMAIN hist.gone : hist.gone[i].wd = d}

\* C33: each unregister that empties a Descriptor raises the pending-ignored
\* counter by exactly one and has remove_watch called for it once, and each
\* receipt of the IGNORED of a Descriptor lowers the counter by exactly one.
C33_Original ==
    /\ \A e \in Emptyings : e.after = e.before + 1 /\ e.asked /\ e.errno = None
    /\ \A d \in IgnoredDeliveries :
          /\ Cardinality(RemovalsOf(d.wd)) = 1
          /\ \A i \in RemovalsOf(d.wd) : hist.gone[i].after = hist.gone[i].before - 1

\* The same, asking for remove_watch only while the Descriptor is active, that
\* is, not while its own IGNORED is being dispatched.
C33_Active ==
    \A e \in Emptyings : e.after = e.before + 1 /\ (e.asked => e.errno = None)

\* What holds of the counter: an emptying that remove_watch does not fail
\* counts one, a failed one counts nothing, and _removewatch counts one down.
C33_Counted ==
    /\ \A e \in Emptyings : e.after = (IF e.errno = None THEN e.before + 1 ELSE e.before)
    /\ \A e \in Emptyings : e.errno # None <=> e.asked /\ ~e.held
    /\ \A g \in Removals : g.after = g.before - 1
    /\ \A d \in IgnoredDeliveries : d.left.exc = NoErr => Cardinality(RemovalsOf(d.wd)) = 1

\* An emptying whose remove_watch failed.
C33_Failed == \E e \in Emptyings : e.errno # None

-----------------------------------------------------------------------------
(* C34.  A directory of the path is swapped with a file and back while     *)
(* reconnect() resolves the path; the program goes on calling read().      *)

SwapRaces == {[at |-> k, errno |-> "ENOTDIR", isdir |-> TRUE, swap |-> TRUE] : k \in RacePoints}

SwapPath == <<"testdir", "testfile">>

\* read(block=False) of the event loop of the program, called again and again.
Poll == ReadStep(NoRace, FALSE, PollStep)

\* A step is one of Poll exactly if it flips steps.polls, and Poll is enabled in
\* every state: a read that does not block can always be called.
Polled == steps' = PollStep

NextSwap ==
    \/ Add(SwapPath, IN_OPEN, "None")
    \/ \E r \in SwapRaces : AddRaced(r, SwapPath, IN_OPEN, "None")
    \/ \E r \in SwapRaces : ReadRaced(r, FALSE)
    \/ Poll
    \/ Open("d1", "testfile")
    \/ \E sf \in BOOLEAN : Unlink("d1", "testfile", sf)
    \/ Create("d1", "testfile")

SpecSwap == InitRace /\ [][NextSwap]_vars /\ WF_steps(Polled)

WatchIds == 0..MaxSteps

\* reconnect() of the watch w stopped on ConcurrentFilesystemModificationError
\* in the last call.
ConcurrentOn(w) == \E f \in Faults : Concurrent(f) /\ f.watch = w

Rebuilding(w) == w \in DOMAIN wobj /\ wobj[w].watch_complete = REBUILD_NEEDED

\* The events of the swap were read and reconnect() ran on the watch w again.
RerunOn(w) ==
    /\ op.name = "read" /\ w \in Range(hist.recon) /\ ~ConcurrentOn(w)
    /\ \E i \in DOMAIN hist.raws : hist.raws[i].mask \cap IN_MOVED_TO # {}

\* C34: when reconnect() stops on ConcurrentFilesystemModificationError and
\* leaves the watch REBUILD_NEEDED, then, the program reading on, reconnect()
\* runs on the watch again once the events of the modification are read, and
\* the watch does not stay REBUILD_NEEDED.
C34_Original ==
    \A w \in WatchIds :
        /\ ConcurrentOn(w) ~> RerunOn(w)
        /\ ConcurrentOn(w) ~> ~Rebuilding(w)

\* No read raises the FileNotFoundError of the resolver.
ReadsTakeFaults == op.name = "read" => err.type # "FileNotFoundError"

\* The same of the behaviours in which reconnect() lets no path fault out of read().
C34_WhenTaken == []ReadsTakeFaults => C34_Original

\* A read after the swap found the events of the renames and rebuilt the chain.
C34_Witness ==
    /\ Returned("read")
    /\ \E w \in DOMAIN wobj : RerunOn(w) /\ wobj[w].watch_complete = FULLY_WATCHED
    /\ \E i \in DOMAIN hist.raws :
          hist.raws[i].mask \cap IN_MOVED_TO # {} /\ hist.raws[i].name = <<"testdir">>

\* The fault left the watch out of the reconnection set.
C34_Left == \E f \in Faults : Concurrent(f) /\ ~f.queued /\ f.watch \notin reconn /\ kq # <<>>

-----------------------------------------------------------------------------
(* C35.  A path that goes through one symlink twice; the directory the     *)
(* symlink leads to is moved away and back while the path is watched.      *)

\* testlink -> testfile and testdir -> testlink are symlinks, testfile is a
\* directory.
ResumeFixture ==
    [d \in DirInodes |-> [n \in Names |->
        IF d = "root" /\ n = "testfile" THEN "d1"
        ELSE IF d = "root" /\ n = "testlink" THEN "s1"
        ELSE IF d = "root" /\ n = "testdir" THEN "s2"
        ELSE None]]

InitResume == InitWith(ResumeFixture)

ResumePaths == {<<"testlink", "..", "testlink">>, <<"testdir", "..", "testdir">>,
                <<"testlink">>}

NextResume ==
    \/ \E p \in ResumePaths : Add(p, IN_OPEN, "None")
    \/ \E b \in BOOLEAN : Read(b)
    \/ Rename("root", "testfile", "nonexistent")
    \/ Rename("root", "nonexistent", "testfile")
    \/ Unmount("root", "testfile")

SpecResume == InitResume /\ [][NextResume]_vars

\* A watcher that has watched nothing yet, on the filesystem as it is.
FreshWatcher ==
    [Cur EXCEPT !.kwatch = <<>>, !.kq = <<>>, !.nextwd = 1, !.wobj = <<>>, !.lobj = <<>>,
                !.dobj = <<>>, !.wdtab = {}, !.paths = <<>>, !.pending = 0,
                !.reconn = {}, !.events = <<>>]

\* A fresh add of the path of the watch w.
FreshAdd(w) == add(FreshWatcher, Str(wobj[w].path), wobj[w].mask, "None").s

\* What the Links of the watch w of the heap s were made with.
ChainIn(s, w) ==
    [i \in 1..Len(s.wobj[w].links) |->
        LET l == s.lobj[s.wobj[w].links[i]]
        IN [path |-> l.path, rest |-> l.rest, name |-> l.name, mask |-> l.mask]]

\* The watches of the path table that the last call ran reconnect() on from
\* the Links they had kept.
Resumed == {r.watch : r \in Range(hist.resumed)} \cap Watched

\* C35: on an unchanged filesystem a reconnect that resumes from the last Link
\* appends the Links that a resolution from scratch yields after that position:
\* the chain and the completion are those of a fresh add of the path.
C35_Original ==
    (Returned("add") \/ Returned("read")) /\ kq = <<>> =>
        \A w \in Resumed :
            Let(FreshAdd(w), LAMBDA f :
                /\ ChainIn(Cur, w) = ChainIn(f, 0)
                /\ wobj[w].watch_complete = f.wobj[0].watch_complete)

\* The same of the completion alone.
C35_Completion ==
    (Returned("add") \/ Returned("read")) /\ kq = <<>> =>
        \A w \in Resumed : wobj[w].watch_complete = FreshAdd(w).wobj[0].watch_complete

\* The same of the directories and names watched, whatever the number of Links
\* that watch them.
C35_Places ==
    (Returned("add") \/ Returned("read")) /\ kq = <<>> =>
        \A w \in Resumed :
            wobj[w].watch_complete = FULLY_WATCHED =>
                Range(ChainIn(FreshAdd(w), 0)) \subseteq Range(ChainIn(Cur, w))

\* A resumed reconnect completed.
C35_Done == Returned("read") /\ kq = <<>> /\ \E w \in Resumed : wobj[w].watch_complete = FULLY_WATCHED

\* The same of the completion, of the reads that raise too.
C35_Ends ==
    op.name = "read" /\ kq = <<>> =>
        \A w \in Resumed : wobj[w].watch_complete = FreshAdd(w).wobj[0].watch_complete

-----------------------------------------------------------------------------
(* C36 *)

\* The faults of reconnect() that are symlink loops.
LoopFaults == {f \in Faults : f.exc.type = "SymlinkLoopError"}

\* The symlinks counted for the watch w: the counts kept in its Links, and,
\* when reconnect() has just run and nothing is queued, the count of a
\* resolution of its path.
CountsOf(w) ==
    {lobj[wobj[w].links[i]].linkcount : i \in 1..Len(wobj[w].links)}
    \cup (IF w \in Range(hist.recon) /\ kq = <<>> THEN {Resolution(w).cnt} ELSE {})

\* No fully watched PathWatch has counted more symlinks than the maximum.
C36_Never ==
    \A w \in DOMAIN wobj :
        wobj[w].watch_complete = FULLY_WATCHED => \A c \in CountsOf(w) : c <= SymlinkMax

\* C36: a PathWatch never becomes FULLY_WATCHED when the resolution of its path
\* follows more symlinks than the maximum, the count kept in the last Link
\* included: reconnect() raises SymlinkLoopError inside, does not let it out, and
\* the PathWatch ends UNWATCHABLE.
C36_Original ==
    /\ C36_Never
    /\ \A f \in LoopFaults : f.raised = NoErr /\ f.complete = UNWATCHABLE

\* The loop of reconnect() counted past the maximum in a resumed run.
C36_Counted ==
    \E f \in LoopFaults : \E r \in Range(hist.resumed) :
        f.watch = r.watch /\ f.complete = REBUILD_NEEDED /\ f.raised # NoErr

-----------------------------------------------------------------------------
(* C37 *)

\* The pairs of the resolver whose remaining path begins with '..' and that
\* another pair follows.
DotSteps == {i \in 1..(Len(ret) - 1) : ret[i].rest # <<>> /\ ret[i].rest[1] = ".."}

\* The location is made of '/' and '..' alone.
AllUp(loc) == \A k \in 1..Len(loc) : loc[k] \in {"/", ".."}

\* C37 as stated: when the remaining path begins with '..', the resolver drops
\* the last segment of the location and goes on behind the '..'; the root '/'
\* stays '/' and does not become '/..'.
C37_Original ==
    op.name = "resolve" =>
        \A i \in DotSteps :
            /\ ret[i + 1].rest = Tail(ret[i].rest)
            /\ ret[i].loc = rootdir => ret[i + 1].loc = rootdir
            /\ ~AllUp(ret[i].loc) => ret[i + 1].loc = Front(ret[i].loc)

\* C37: when the remaining path begins with '..', the resolver goes on behind
\* the '..' with the last segment of the location dropped, unless the location
\* holds nothing but '/' and '..': then '..' is appended, the root '/' becomes
\* '/..', which names the root again.
C37_Appends ==
    op.name = "resolve" =>
        \A i \in DotSteps :
            /\ ret[i + 1].rest = Tail(ret[i].rest)
            /\ ~AllUp(ret[i].loc) => ret[i + 1].loc = Front(ret[i].loc)
            /\ AllUp(ret[i].loc) =>
                  /\ ret[i + 1].loc = ret[i].loc \o <<"..">>
                  /\ is_absolute(ret[i].loc) => Denotes(ret[i + 1].loc) = Denotes(rootdir)

\* '..' was resolved at the root, and in a directory below it.
C37_Witness ==
    /\ op.name = "resolve"
    /\ \E i \in DotSteps : ret[i].loc = rootdir /\ ret[i + 1].loc = <<"/", "..">>

C37_WitnessBelow ==
    /\ op.name = "resolve"
    /\ \E i \in DotSteps : ret[i].loc = <<"testdir">> /\ ret[i + 1].loc = <<>>

-----------------------------------------------------------------------------
(* A watch on the current directory, as in test_move and test_repr, beside a
   watch on a file in it, under queue overflow.                            *)

HerePath == <<".">>

NextLeaf ==
    \/ Add(HerePath, IN_MOVE, "None")
    \/ Add(<<"testfile">>, IN_OPEN, "None")
    \/ Update(HerePath, IN_OPEN, "None")
    \/ \E b \in BOOLEAN : Read(b)
    \/ Overflow
    \/ Open("root", "testfile")
    \/ Rename("root", "testfile", "nonexistent")

SpecLeaf == InitWith(Fixture) /\ [][NextLeaf]_vars

\* The positions of the leaf Links in the chain of w: the Links with no name,
\* nothing remaining and the mask of the watch.
LeafAt(w) ==
    {i \in 1..Len(wobj[w].links) :
        IsLeaf(wobj[w].links[i]) /\ lobj[wobj[w].links[i]].mask = wobj[w].mask}

\* The watches whose chain is the leaf Link alone.
LeafOnly == {w \in DOMAIN wobj : Len(wobj[w].links) = 1 /\ LeafAt(w) = {1}}

\* C38: a PathWatch holds at most one leaf Link, a Link with no name, nothing
\* remaining and the mask of the watch, and that Link is the last of the chain;
\* an overflow and reconnect of a watch on '.' appends no second leaf.
C38_Original ==
    \A w \in DOMAIN wobj :
        /\ Cardinality(LeafAt(w)) <= 1
        /\ LeafAt(w) # {} => LeafAt(w) = {Len(wobj[w].links)}

\* A watch that went through a Link before its leaf keeps a single leaf.
C38_Below ==
    \A w \in DOMAIN wobj :
        (\E i \in 1..Len(wobj[w].links) : ~IsLeaf(wobj[w].links[i])) =>
            Cardinality(LeafAt(w)) <= 1

\* A read reconnected a watch of one leaf Link after an overflow.
C38_Reconnected ==
    /\ op.name = "read"
    /\ \E r \in Range(hist.resumed) :
          r.kept = 1 /\ r.watch \in DOMAIN wobj /\ LeafAt(r.watch) # {}

\* The watch on '.' holds two leaf Links.
C38_Doubled == \E w \in DOMAIN wobj : Cardinality(LeafAt(w)) = 2

-----------------------------------------------------------------------------
(* The count of the IGNORED events that are still to come.                 *)

\* The Descriptors of the table that no Link is registered with.
EmptyDescriptors == {d \in wdtab : LinksOn(d) = {}}

\* C39: between the steps of the handlers, the pending-ignored counter is the
\* number of Descriptors in the descriptor table with no registered Link, and
\* it is never negative.
C39_Original == pending = Cardinality(EmptyDescriptors) /\ pending >= 0

\* What holds of the counter in every state: it counts no more than the
\* Descriptors that no Link is registered with.
C39_AtMost == pending <= Cardinality(EmptyDescriptors)

\* While no call of the kernel's remove_watch fails, the counter is that number.
C39_WhenRemoved == [](err.errno # "EINVAL") => []C39_Original

\* A Descriptor was emptied and not counted, and its IGNORED event was read:
\* the counter is below zero.
C39_Negative == op.name = "read" /\ pending < 0

-----------------------------------------------------------------------------
(* The calls of the kernel's remove_watch.                                 *)

\* The calls of _signal_empty_watch that went on to call remove_watch.
RemoveCalls == {e \in Emptyings : e.asked}

\* C40: the watcher calls the kernel's remove_watch at most once for a watch
\* descriptor, and never for one the kernel has dropped on its own already,
\* whose IGNORED event is queued and not yet read.
C40_Original == \A e \in RemoveCalls : ~e.twice /\ e.held

\* No watch descriptor is given to remove_watch after remove_watch took it.
C40_Once == \A e \in RemoveCalls : ~e.twice

\* remove_watch was called for a watch descriptor that the kernel had dropped
\* when the file was deleted.
C40_Dropped == \E e \in RemoveCalls : ~e.held /\ ~e.twice /\ err.errno = "EINVAL"

\* The same inside read(): the DELETE event of the parent directory was
\* dispatched before the IGNORED event of the deleted file.
C40_DroppedRead ==
    /\ op.name = "read" /\ err.errno = "EINVAL"
    /\ \E e \in RemoveCalls : ~e.held /\ ~e.twice
    /\ \E i \in 1..Len(hist.raws) : hist.raws[i].mask \cap IN_DELETE # {}

=============================================================================
